---- MODULE Spec2Model ----
(***************************************************************************)
(* Highlight correlation (find_highlights) and the rating / approval       *)
(* workflow over the highlights and ratings JSON stores.                   *)
(*                                                                         *)
(* Text is modelled as a sequence of one-character strings, so that        *)
(* str(timestamp) and int(text) are computed and not assumed.              *)
(***************************************************************************)
EXTENDS Integers, Sequences, FiniteSets, TLC

VARIABLES
    chat_spikes,     \* find_highlights argument
    audio_peaks,     \* find_highlights argument
    window,          \* find_highlights argument
    fh_result,       \* list returned by find_highlights
    fh_pc,           \* "idle" | "call" | "done"
    highlights,      \* content of highlights.json (a list of {timestamp})
    ratings,         \* content of highlight_ratings.json (a dict)
    ratingsBefore,   \* ratings store when the last operation started
    lastOp,          \* "none" | "post" | "repost" | "detect"
    lastForm,        \* form of the last POST to approval_dashboard
    lastInputs,      \* console lines offered to the last rate_highlights run
    lastStatus,      \* outcome of the last operation
    lastEnv,         \* what the last detection pass found on disk: chat log, ffmpeg
    rcFile,          \* highlight_ratings.json as bytes on disk, under concurrent writers
    rcPc,            \* per writer: "start" | "loaded" | "opened" | "saved" | "failed"
    rcSeen,          \* per writer: what its load_ratings read
    rcLocal,         \* per writer: the dict it is about to save
    rcLast,          \* the writer whose write reached the file last (0: none yet)
    rcOverlap,       \* two writers had the file open for writing at the same time
    psTemp,          \* names of the files in the temp directory
    psHighlights,    \* highlight.json as the status endpoint reads it
    psRatings,       \* highlight_ratings.json as the status endpoint reads it
    psStatus,        \* the last answer of get_pipeline_status
    psPrev,          \* the answer before it
    psOp,            \* "none" | "query" | "change": what happened since the last answer
    dtVariant,       \* "detector" (highlight_detector.py) | "legacy" (highlight_detection.py)
    dtEnv,           \* what a detection pass meets: chat log, ffmpeg, its exit code and stderr
    dtPc,            \* the next step of the pass, or "done" | "raised"
    dtSpikes,        \* chat_spikes of the pass
    dtPeaks,         \* audio_peaks of the pass
    dtFound,         \* highlights of the pass
    dtHighlights,    \* content of the file at output_path
    dtRatings,       \* content of highlight_ratings.json during the pass
    dtReturn,        \* the list detect_highlights returned
    dtTrace,         \* the steps of the pass that completed, in order
    bgReq,           \* per request: the endpoint, the step asked for, whether its script file exists
    bgPc,            \* per request: "new" | "accepted" | "answered"
    bgCode,          \* per request: the HTTP status of the answer (0: none yet)
    bgThread,        \* per request: "none" | "running" | "ok" | "exit1" | "oserror"
    bgLog,           \* the log records written by background threads: <<request, level>>
    bgServer,        \* "up" | "down": the serving process
    slLogs,          \* per log path: the lines of the log file (<<>>: no file yet)
    slState,         \* evaluation_log_state.json: absent, corrupt or a dict path -> offset
    slCount,         \* per log path and line: how many scans examined the line
    slReported,      \* per log path and line: how many scans returned the line
    slStart,         \* per log path: the offset the last scan started from
    slEnd,           \* per log path: the offset the last scan ended at
    slPrevEnd,       \* per log path: the offset the scan before the last ended at
    slLoaded,        \* the kind of state file the last scan found ("none": no scan yet)
    slLost,          \* whether the state file was ever deleted or damaged
    apTemp,          \* the temp directory of the approval app: a set of file names
    apEdited,        \* video_editing/edited: a set of file names
    apPublished,     \* uploader/published: a set of file names
    apHighlights,    \* highlights.json as the approval app reads it
    apRatings,       \* highlight_ratings.json as the approval app reads it
    apStatus,        \* the dict the last get_pipeline_status call returned
    apOp,            \* "none", or "queried" when apStatus belongs to the present inputs
    evCode,          \* the digest of the .py files as they are now
    evHashFile,      \* per entry point: its hash file (absent, text or JSON dict)
    evLast,          \* per entry point: what its last invocation saw and did
    evPrev           \* per entry point: what the invocation before the last saw and did

fhVars == <<chat_spikes, audio_peaks, window, fh_result, fh_pc>>
wfVars == <<highlights, ratings, ratingsBefore, lastOp, lastForm, lastInputs, lastStatus,
            lastEnv>>
vars == <<chat_spikes, audio_peaks, window, fh_result, fh_pc,
          highlights, ratings, ratingsBefore, lastOp, lastForm, lastInputs, lastStatus,
          lastEnv, rcFile, rcPc, rcSeen, rcLocal, rcLast, rcOverlap,
          psTemp, psHighlights, psRatings, psStatus, psPrev, psOp,
          dtVariant, dtEnv, dtPc, dtSpikes, dtPeaks, dtFound, dtHighlights, dtRatings, dtReturn, dtTrace,
          bgReq, bgPc, bgCode, bgThread, bgLog, bgServer,
          slLogs, slState, slCount, slReported, slStart, slEnd, slPrevEnd, slLoaded, slLost,
          apTemp, apEdited, apPublished, apHighlights, apRatings, apStatus, apOp,
          evCode, evHashFile, evLast, evPrev>>

evVars == <<evCode, evHashFile, evLast, evPrev>>

apVars == <<apTemp, apEdited, apPublished, apHighlights, apRatings, apStatus, apOp>>

slVars == <<slLogs, slState, slCount, slReported, slStart, slEnd, slPrevEnd, slLoaded, slLost>>

bgVars == <<bgReq, bgPc, bgCode, bgThread, bgLog, bgServer>>

dtVars == <<dtVariant, dtEnv, dtPc, dtSpikes, dtPeaks, dtFound, dtHighlights, dtRatings, dtReturn, dtTrace>>

psVars == <<psTemp, psHighlights, psRatings, psStatus, psPrev, psOp>>

rcVars == <<rcFile, rcPc, rcSeen, rcLocal, rcLast, rcOverlap>>

\* the variables the find_highlights specification leaves alone
offFind == <<wfVars, rcVars, psVars, dtVars, bgVars, slVars, apVars, evVars>>

\* the variables the workflow specification leaves alone
offWf == <<fhVars, rcVars, psVars, dtVars, bgVars, slVars, apVars, evVars>>

\* the variables the concurrent-writers specification leaves alone
offRace == <<fhVars, wfVars, psVars, dtVars, bgVars, slVars, apVars, evVars>>

\* the variables the pipeline-status specification leaves alone
offStatus == <<fhVars, wfVars, rcVars, dtVars, bgVars, slVars, apVars, evVars>>

\* the variables the detection-pass specification leaves alone
offDetect == <<wfVars, rcVars, psVars, fhVars, bgVars, slVars, apVars, evVars>>

\* the variables the background-step specification leaves alone
offStep == <<wfVars, rcVars, psVars, dtVars, fhVars, slVars, apVars, evVars>>

\* the variables the log-scanning specification leaves alone
offScan == <<wfVars, rcVars, psVars, dtVars, bgVars, fhVars, apVars, evVars>>

\* the variables the approval-app status specification leaves alone
offApp == <<wfVars, rcVars, psVars, dtVars, bgVars, slVars, fhVars, evVars>>

\* the variables the change-triggered evaluation specification leaves alone
offEval == <<wfVars, rcVars, psVars, dtVars, bgVars, slVars, apVars, fhVars>>

----------------------------------------------------------------------------
(* Bounds *)

MaxChat == 3        \* longest chat_spikes list given to find_highlights
MaxAudio == 2       \* longest audio_peaks list given to find_highlights
MaxTime == 3        \* find_highlights timestamps range over 0..MaxTime
MaxWindow == 1      \* find_highlights windows range over 0..MaxWindow
MaxPeaks == 2       \* longest audio peak list of a detection pass

\* window=10, the default every detection pass uses
DefaultWindow == 10

----------------------------------------------------------------------------
(* Generic helpers *)

Abs(n) == IF n < 0 THEN -n ELSE n

Range(s) == {s[i] : i \in DOMAIN s}

SeqsUpTo(S, n) == UNION {[1..k -> S] : k \in 0..n}

CountOf(s, v) == Cardinality({i \in DOMAIN s : s[i] = v})

----------------------------------------------------------------------------
(* find_highlights *)

Highlight(t) == [timestamp |-> t]

\* the inner loop with a strict '<' comparison
AudioMatchStrict(chat_time, peaks, w) ==
    \E i \in DOMAIN peaks : Abs(chat_time - peaks[i]) < w

\* the inner loop looking at the first audio peak only
AudioMatchFirstOnly(chat_time, peaks, w) ==
    peaks # <<>> /\ Abs(chat_time - Head(peaks)) <= w

\* the inner loop: scan audio_peaks in order, stop at the first peak within
\* the window; TRUE iff the append was executed for this chat_time
RECURSIVE AudioMatch(_, _, _)
AudioMatch(chat_time, peaks, w) ==
    IF peaks = <<>> THEN FALSE
    ELSE IF Abs(chat_time - Head(peaks)) <= w THEN TRUE
    ELSE AudioMatch(chat_time, Tail(peaks), w)

\* the inner loop without its break: one append per qualifying peak
RECURSIVE InnerLoopNoBreak(_, _, _)
InnerLoopNoBreak(chat_time, peaks, w) ==
    IF peaks = <<>> THEN <<>>
    ELSE (IF Abs(chat_time - Head(peaks)) <= w THEN <<Highlight(chat_time)>> ELSE <<>>)
         \o InnerLoopNoBreak(chat_time, Tail(peaks), w)

\* the inner loop as executed: the appends made for one chat_time
InnerLoop(chat_time, peaks, w) ==
    IF AudioMatch(chat_time, peaks, w) THEN <<Highlight(chat_time)>> ELSE <<>>

\* find_highlights appending the audio time instead of the chat time
RECURSIVE FindHighlightsAudioTime(_, _, _)
FindHighlightsAudioTime(spikes, peaks, w) ==
    IF spikes = <<>> THEN <<>>
    ELSE LET m == {i \in DOMAIN peaks : Abs(Head(spikes) - peaks[i]) <= w}
             first == CHOOSE i \in m : \A j \in m : i <= j
         IN (IF m = {} THEN <<>> ELSE <<Highlight(peaks[first])>>)
            \o FindHighlightsAudioTime(Tail(spikes), peaks, w)

\* find_highlights treating "no audio data" as "everything matches"
RECURSIVE FindHighlightsNoAudioAll(_, _, _)
FindHighlightsNoAudioAll(spikes, peaks, w) ==
    IF spikes = <<>> THEN <<>>
    ELSE (IF peaks = <<>> THEN <<Highlight(Head(spikes))>>
          ELSE InnerLoop(Head(spikes), peaks, w))
         \o FindHighlightsNoAudioAll(Tail(spikes), peaks, w)

\* find_highlights returning its result sorted by time
RECURSIVE InsertSorted(_, _)
InsertSorted(h, s) ==
    IF s = <<>> THEN <<h>>
    ELSE IF h.timestamp <= Head(s).timestamp THEN <<h>> \o s
    ELSE <<Head(s)>> \o InsertSorted(h, Tail(s))

RECURSIVE FindHighlightsSorted(_, _, _)
FindHighlightsSorted(spikes, peaks, w) ==
    IF spikes = <<>> THEN <<>>
    ELSE LET rest == FindHighlightsSorted(Tail(spikes), peaks, w)
         IN IF AudioMatch(Head(spikes), peaks, w)
            THEN InsertSorted(Highlight(Head(spikes)), rest)
            ELSE rest

\* the outer loop: chat_spikes in order, appending to highlights
RECURSIVE FindHighlights(_, _, _)
FindHighlights(spikes, peaks, w) ==
    IF spikes = <<>> THEN <<>>
    ELSE InnerLoop(Head(spikes), peaks, w) \o FindHighlights(Tail(spikes), peaks, w)

----------------------------------------------------------------------------
(* Specification of find_highlights as a pure function: Init draws the     *)
(* arguments, the one action applies the function.                         *)

FindTimes == 0..MaxTime

\* the scenario of the specification, outside the small ranges
ScenarioChat == <<100, 200, 500>>
ScenarioAudio == <<105, 490>>
ScenarioWindow == DefaultWindow

\* no detection pass has looked at the disk
NoEnv == [chat |-> "none", ffmpeg |-> "none"]

WfIdle ==
    /\ highlights = <<>>
    /\ ratings = <<>>
    /\ ratingsBefore = <<>>
    /\ lastOp = "none"
    /\ lastForm = <<>>
    /\ lastInputs = <<>>
    /\ lastStatus = "none"
    /\ lastEnv = NoEnv

\* the two writers of the ratings store
Writers == {1, 2}

\* a file holding the JSON text of dict d, n bytes long
ValidFile(d, n) == [valid |-> TRUE, data |-> d, size |-> n]

\* a file whose n bytes are not a JSON document (empty when n = 0)
BrokenFile(n) == [valid |-> FALSE, data |-> <<>>, size |-> n]

RcIdle ==
    /\ rcFile = ValidFile(<<>>, 2)
    /\ rcPc = [w \in Writers |-> "idle"]
    /\ rcSeen = [w \in Writers |-> [valid |-> TRUE, data |-> <<>>]]
    /\ rcLocal = [w \in Writers |-> <<>>]
    /\ rcLast = 0
    /\ rcOverlap = FALSE

\* a JSON file on disk: kind is "absent", "list" or "dict"
StoreFile(kind, data) == [kind |-> kind, data |-> data]

\* status = {"Ingested": [], "Detection": [], "Editing": [], "Publishing": []}
EmptyStatus == [Ingested |-> <<>>, Detection |-> <<>>, Editing |-> <<>>, Publishing |-> <<>>]

PsIdle ==
    /\ psTemp = {}
    /\ psHighlights = StoreFile("absent", <<>>)
    /\ psRatings = StoreFile("absent", <<>>)
    /\ psStatus = EmptyStatus
    /\ psPrev = EmptyStatus
    /\ psOp = "none"

DtIdle ==
    /\ dtVariant = "detector"
    /\ dtEnv = <<>>
    /\ dtPc = "idle"
    /\ dtSpikes = <<>>
    /\ dtPeaks = <<>>
    /\ dtFound = <<>>
    /\ dtHighlights = <<>>
    /\ dtRatings = <<>>
    /\ dtReturn = <<>>
    /\ dtTrace = <<>>

BgIdle ==
    /\ bgReq = <<>>
    /\ bgPc = <<>>
    /\ bgCode = <<>>
    /\ bgThread = <<>>
    /\ bgLog = {}
    /\ bgServer = "up"

SlIdle ==
    /\ slLogs = <<>>
    /\ slState = StoreFile("absent", <<>>)
    /\ slCount = <<>>
    /\ slReported = <<>>
    /\ slStart = <<>>
    /\ slEnd = <<>>
    /\ slPrevEnd = <<>>
    /\ slLoaded = "none"
    /\ slLost = FALSE

ApIdle ==
    /\ apTemp = {}
    /\ apEdited = {}
    /\ apPublished = {}
    /\ apHighlights = StoreFile("absent", <<>>)
    /\ apRatings = StoreFile("absent", <<>>)
    /\ apStatus = <<>>
    /\ apOp = "none"

EvIdle ==
    /\ evCode = <<>>
    /\ evHashFile = <<>>
    /\ evLast = <<>>
    /\ evPrev = <<>>

\* the state of the other components while one of the earlier ones runs
RestIdle ==
    /\ DtIdle
    /\ BgIdle
    /\ SlIdle
    /\ ApIdle
    /\ EvIdle

InitFind ==
    /\ \/ /\ chat_spikes \in SeqsUpTo(FindTimes, MaxChat)
          /\ audio_peaks \in SeqsUpTo(FindTimes, MaxAudio)
          /\ window \in 0..MaxWindow
       \/ /\ chat_spikes = ScenarioChat
          /\ audio_peaks = ScenarioAudio
          /\ window = ScenarioWindow
    /\ fh_result = <<>>
    /\ fh_pc = "call"
    /\ WfIdle
    /\ RcIdle
    /\ PsIdle
    /\ RestIdle

CallFindHighlights ==
    /\ fh_pc = "call"
    /\ fh_result' = FindHighlights(chat_spikes, audio_peaks, window)
    /\ fh_pc' = "done"
    /\ UNCHANGED <<chat_spikes, audio_peaks, window>>
    /\ UNCHANGED offFind

NextFind == CallFindHighlights

SpecFind == InitFind /\ [][NextFind]_vars

----------------------------------------------------------------------------
(* Claims about find_highlights, checked under SpecFind *)

\* some audio peak lies within w of c
Qualifies(c, peaks, w) == \E i \in DOMAIN peaks : Abs(c - peaks[i]) <= w

\* distance from c to the nearest audio peak (peaks not empty)
NearestDistance(c, peaks) ==
    CHOOSE d \in {Abs(c - peaks[i]) : i \in DOMAIN peaks} :
        \A j \in DOMAIN peaks : d <= Abs(c - peaks[j])

ResultTimes == {fh_result[i].timestamp : i \in DOMAIN fh_result}

\* C1: find_highlights returns exactly {timestamp: c} for the positions of
\* chat_spikes whose value has an audio peak within the window, in the input
\* order of chat_spikes; the scenario [100,200,500] / [105,490] / 10 gives
\* [100, 500].
C1_ExactSelection ==
    fh_pc = "done" =>
        LET sel == SelectSeq(chat_spikes, LAMBDA c : Qualifies(c, audio_peaks, window))
        IN /\ fh_result = [i \in 1..Len(sel) |-> Highlight(sel[i])]
           /\ (chat_spikes = ScenarioChat /\ audio_peaks = ScenarioAudio
                 /\ window = ScenarioWindow)
              => fh_result = <<Highlight(100), Highlight(500)>>

\* a run that skips a chat spike and returns the others out of time order
C1_Witness ==
    /\ fh_pc = "done"
    /\ Len(fh_result) = 2
    /\ Len(chat_spikes) = 3
    /\ fh_result[1].timestamp > fh_result[2].timestamp

\* C2: every emitted highlight's timestamp is an element of chat_spikes and
\* has at least one audio peak within window seconds of it.
C2_EmittedAreMatchedChatTimes ==
    fh_pc = "done" =>
        \A i \in DOMAIN fh_result :
            /\ fh_result[i].timestamp \in Range(chat_spikes)
            /\ \E a \in Range(audio_peaks) : Abs(fh_result[i].timestamp - a) <= window

\* a highlight was emitted whose time is a chat time and not an audio time
C2_Witness ==
    /\ fh_pc = "done"
    /\ \E i \in DOMAIN fh_result :
          /\ fh_result[i].timestamp \notin Range(audio_peaks)
          /\ fh_result[i].timestamp \in Range(chat_spikes)

\* C3: the window is inclusive: a chat spike at distance exactly window from
\* an audio peak is a highlight, a chat spike whose nearest audio peak is at
\* distance window + 1 is not (with window = 0 only c = a matches).
C3_InclusiveWindow ==
    fh_pc = "done" =>
        \A c \in Range(chat_spikes) :
            /\ (\E a \in Range(audio_peaks) : Abs(c - a) = window) => c \in ResultTimes
            /\ (audio_peaks # <<>> /\ NearestDistance(c, audio_peaks) = window + 1)
                  => c \notin ResultTimes

\* both sides of the boundary in one call, with a window that is not zero
C3_Witness ==
    /\ fh_pc = "done"
    /\ window > 0
    /\ audio_peaks # <<>>
    /\ \E c \in Range(chat_spikes) :
          NearestDistance(c, audio_peaks) = window /\ c \in ResultTimes
    /\ \E c \in Range(chat_spikes) :
          NearestDistance(c, audio_peaks) = window + 1 /\ c \notin ResultTimes

\* C4: at most one highlight per position of chat_spikes however many audio
\* peaks qualify, and no deduplication: a value occurring k times in
\* chat_spikes with a qualifying peak occurs exactly k times in the result.
C4_OnePerPositionNoDedup ==
    fh_pc = "done" =>
        /\ Len(fh_result) <= Len(chat_spikes)
        /\ \A c \in Range(chat_spikes) :
              CountOf(fh_result, Highlight(c)) =
                  IF Qualifies(c, audio_peaks, window) THEN CountOf(chat_spikes, c) ELSE 0

\* a chat time given twice, with two qualifying audio peaks, emitted twice
C4_Witness ==
    /\ fh_pc = "done"
    /\ \E c \in Range(chat_spikes) :
          /\ CountOf(chat_spikes, c) = 2
          /\ Cardinality({i \in DOMAIN audio_peaks : Abs(c - audio_peaks[i]) <= window}) = 2
          /\ CountOf(fh_result, Highlight(c)) = 2

\* C5: with chat_spikes empty or audio_peaks empty the result is the empty
\* list, for every window.
C5_EmptyInputEmptyResult ==
    (fh_pc = "done" /\ (chat_spikes = <<>> \/ audio_peaks = <<>>)) => fh_result = <<>>

\* chat spikes given, no audio peak at all
C5_Witness ==
    /\ fh_pc = "done"
    /\ Len(chat_spikes) = MaxChat
    /\ audio_peaks = <<>>
    /\ fh_result = <<>>

\* the lists with the same elements as peaks: its permutations, and the
\* lists that repeat some of its elements once more
SameElements(peaks) ==
    {p \in SeqsUpTo(Range(peaks), Len(peaks) + 1) : Range(p) = Range(peaks)}

\* C30: find_highlights depends on audio_peaks only as a set: a permutation
\* of audio_peaks, or a list repeating some of its elements, gives the same
\* result for the same chat_spikes and window.
C30_AudioPeaksAsSet ==
    fh_pc = "done" =>
        \A p \in SameElements(audio_peaks) :
            FindHighlights(chat_spikes, p, window) = fh_result

\* the first peak of the list does not qualify for a chat spike that the
\* second one matches
C30_Witness ==
    /\ fh_pc = "done"
    /\ Len(audio_peaks) = 2
    /\ fh_result # <<>>
    /\ \E i \in DOMAIN chat_spikes :
          /\ Abs(chat_spikes[i] - audio_peaks[1]) > window
          /\ Abs(chat_spikes[i] - audio_peaks[2]) <= window

----------------------------------------------------------------------------
(* Text: str(int), int(text), form field names *)

DigitChars == <<"0", "1", "2", "3", "4", "5", "6", "7", "8", "9">>

IsDigit(c) == \E d \in 1..10 : DigitChars[d] = c

DigitValue(c) == (CHOOSE d \in 1..10 : DigitChars[d] = c) - 1

\* str(n) for an integer n
RECURSIVE Str(_)
Str(n) ==
    IF n < 0 THEN <<"-">> \o Str(-n)
    ELSE IF n < 10 THEN <<DigitChars[n + 1]>>
    ELSE Str(n \div 10) \o <<DigitChars[(n % 10) + 1]>>

RECURSIVE StripLeft(_)
StripLeft(s) == IF s # <<>> /\ Head(s) = " " THEN StripLeft(Tail(s)) ELSE s

RECURSIVE StripRight(_)
StripRight(s) ==
    IF s # <<>> /\ s[Len(s)] = " " THEN StripRight(SubSeq(s, 1, Len(s) - 1)) ELSE s

RECURSIVE DigitsValue(_)
DigitsValue(s) ==
    IF Len(s) = 1 THEN DigitValue(s[1])
    ELSE 10 * DigitsValue(SubSeq(s, 1, Len(s) - 1)) + DigitValue(s[Len(s)])

\* int(text): surrounding blanks stripped, an optional sign, then digits;
\* anything else raises ValueError (ok = FALSE)
ParseInt(text) ==
    LET t == StripRight(StripLeft(text))
        signed == t # <<>> /\ Head(t) \in {"-", "+"}
        body == IF signed THEN Tail(t) ELSE t
    IN IF body # <<>> /\ \A i \in DOMAIN body : IsDigit(body[i])
       THEN [ok |-> TRUE,
             value |-> IF signed /\ Head(t) = "-" THEN -DigitsValue(body)
                       ELSE DigitsValue(body)]
       ELSE [ok |-> FALSE, value |-> 0]

\* f'rating_{ts}' and f'approve_{ts}'
RatingField(ts) == <<"r", "a", "t", "i", "n", "g", "_">> \o ts
ApproveField(ts) == <<"a", "p", "p", "r", "o", "v", "e", "_">> \o ts

On == <<"o", "n">>

\* request.form.get(name): None when the field is not in the form
NoneValue == <<"None">>
FormGet(form, name) == IF name \in DOMAIN form THEN form[name] ELSE NoneValue

\* truth value of a form value: None and '' are false
Truthy(v) == v # NoneValue /\ v # <<>>

----------------------------------------------------------------------------
(* The JSON stores *)

\* a JSON number stored as a dict value
JsonInt(n) == [int |-> n]

\* ratings[ts] = value on a loaded dict
Put(d, k, v) == [x \in (DOMAIN d) \cup {k} |-> IF x = k THEN v ELSE d[x]]

\* {'rating': int(rating), 'approved': approved}
RatingEntry(r, a) == [rating |-> r, approved |-> a]

----------------------------------------------------------------------------
(* rate_highlights (console) *)

\* one more line was read from standard input
OneMoreAsked(r) == [r EXCEPT !.asked = @ + 1]

\* the loop of rate_highlights asking for every highlight, rated or not
RECURSIVE RateLoopReasking(_, _, _)
RateLoopReasking(hs, rs, lines) ==
    IF hs = <<>> THEN [raised |-> FALSE, ratings |-> rs, asked |-> 0]
    ELSE IF lines = <<>> THEN [raised |-> TRUE, ratings |-> rs, asked |-> 0]
    ELSE LET p == ParseInt(Head(lines))
             ts == Str(Head(hs).timestamp)
         IN OneMoreAsked(
              IF p.ok /\ 1 <= p.value /\ p.value <= 5
              THEN RateLoopReasking(Tail(hs), Put(rs, ts, JsonInt(p.value)), Tail(lines))
              ELSE RateLoopReasking(Tail(hs), rs, Tail(lines)))

\* the loop of rate_highlights over the loaded dict; lines is what is left
\* on standard input. raised: input() met the end of input (EOFError, which
\* neither rate_highlights nor detect_highlights catches); asked: the
\* number of lines read
RECURSIVE RateLoop(_, _, _)
RateLoop(hs, rs, lines) ==
    IF hs = <<>> THEN [raised |-> FALSE, ratings |-> rs, asked |-> 0]
    ELSE LET ts == Str(Head(hs).timestamp)
         IN IF ts \in DOMAIN rs THEN RateLoop(Tail(hs), rs, lines)
            ELSE IF lines = <<>> THEN [raised |-> TRUE, ratings |-> rs, asked |-> 0]
            ELSE LET p == ParseInt(Head(lines))
                 IN OneMoreAsked(
                      IF p.ok /\ 1 <= p.value /\ p.value <= 5
                      THEN RateLoop(Tail(hs), Put(rs, ts, JsonInt(p.value)), Tail(lines))
                      ELSE RateLoop(Tail(hs), rs, Tail(lines)))

\* the highlights rate_highlights prompts for, given the stored ratings
Prompted(found, stored) ==
    SelectSeq(found, LAMBDA h : Str(h.timestamp) \notin DOMAIN stored)

\* rate_highlights keeping only the entries of the highlights it was given
RateHighlightsPurging(hs, stored, lines) ==
    LET r == RateLoop(hs, stored, lines)
        keep == {Str(hs[i].timestamp) : i \in DOMAIN hs} \cap DOMAIN r.ratings
    IN [raised |-> r.raised, ratings |-> [k \in keep |-> r.ratings[k]], asked |-> r.asked]

\* rate_highlights giving every unrated highlight a default rating of 3
\* without asking
RECURSIVE AutoRate(_, _)
AutoRate(hs, rs) ==
    IF hs = <<>> THEN rs
    ELSE AutoRate(Tail(hs), Put(rs, Str(Head(hs).timestamp), JsonInt(3)))

RateHighlightsAuto(hs, stored, lines) ==
    [raised |-> FALSE, ratings |-> AutoRate(Prompted(hs, stored), stored), asked |-> 0]

\* rate_highlights without the 'if ts not in ratings' test
RateHighlightsReasking(hs, stored, lines) == RateLoopReasking(hs, stored, lines)

\* rate_highlights: load_ratings, the loop, save_ratings; the result holds
\* the dict to save when raised is FALSE
RateHighlights(hs, stored, lines) == RateLoop(hs, stored, lines)

----------------------------------------------------------------------------
(* approval_dashboard, POST *)

\* the POST loop applying a rating the second time it is sent on top of the
\* stored one (an accumulating update instead of an assignment)
RECURSIVE PostLoopAccumulating(_, _, _)
PostLoopAccumulating(hs, rs, form) ==
    IF hs = <<>> THEN [raised |-> FALSE, ratings |-> rs]
    ELSE LET ts == Str(Head(hs).timestamp)
             rating == FormGet(form, RatingField(ts))
             approved == (FormGet(form, ApproveField(ts)) = On)
             p == ParseInt(rating)
             old == IF ts \in DOMAIN rs /\ DOMAIN rs[ts] = {"rating", "approved"}
                    THEN rs[ts].rating ELSE 0
         IN IF Truthy(rating)
            THEN IF p.ok
                 THEN PostLoopAccumulating(Tail(hs),
                          Put(rs, ts, RatingEntry((old + p.value) % 10, approved)), form)
                 ELSE [raised |-> TRUE, ratings |-> rs]
            ELSE PostLoopAccumulating(Tail(hs), rs, form)

\* the POST loop rewriting every listed highlight, rated in the form or not
RECURSIVE PostLoopResetting(_, _, _)
PostLoopResetting(hs, rs, form) ==
    IF hs = <<>> THEN [raised |-> FALSE, ratings |-> rs]
    ELSE LET ts == Str(Head(hs).timestamp)
             rating == FormGet(form, RatingField(ts))
             approved == (FormGet(form, ApproveField(ts)) = On)
             p == ParseInt(rating)
         IN IF Truthy(rating)
            THEN IF p.ok
                 THEN PostLoopResetting(Tail(hs),
                          Put(rs, ts, RatingEntry(p.value, approved)), form)
                 ELSE [raised |-> TRUE, ratings |-> rs]
            ELSE PostLoopResetting(Tail(hs),
                     IF ts \in DOMAIN rs
                     THEN Put(rs, ts, RatingEntry(0, approved)) ELSE rs, form)

\* the POST loop over the loaded highlights; raised: int(rating) raised
\* ValueError, the request ends in the error handler before save_ratings
RECURSIVE PostLoop(_, _, _)
PostLoop(hs, rs, form) ==
    IF hs = <<>> THEN [raised |-> FALSE, ratings |-> rs]
    ELSE LET ts == Str(Head(hs).timestamp)
             rating == FormGet(form, RatingField(ts))
             approved == (FormGet(form, ApproveField(ts)) = On)
             p == ParseInt(rating)
         IN IF Truthy(rating)
            THEN IF p.ok
                 THEN PostLoop(Tail(hs), Put(rs, ts, RatingEntry(p.value, approved)), form)
                 ELSE [raised |-> TRUE, ratings |-> rs]
            ELSE PostLoop(Tail(hs), rs, form)

----------------------------------------------------------------------------
(* Inputs of the workflow *)

\* chat spikes are starts of 10-second buckets: multiples of 10, increasing
WfChatTimes == {10, 120}

\* audio peaks: 10 seconds after the first chat time (the edge of the
\* window), 11 seconds after it (just outside), 10 seconds after the second
WfAudioTimes == {20, 21, 130}

IsIncreasing(s) == \A i, j \in DOMAIN s : i < j => s[i] < s[j]

WfChatSpikes == {s \in SeqsUpTo(WfChatTimes, Cardinality(WfChatTimes)) : IsIncreasing(s)}

WfKeys == {Str(t) : t \in WfChatTimes}

\* text typed at the console prompt or sent in a rating field
RatingTexts == {<<>>, <<"2">>, <<"4">>, <<"6">>, <<"x">>}

FormFields == {RatingField(k) : k \in WfKeys} \cup {ApproveField(k) : k \in WfKeys}

AllForms == UNION {[F -> RatingTexts \cup {On}] : F \in SUBSET FormFields}

\* forms with texts in the rating fields and "on" in the checkboxes sent
Forms ==
    {f \in AllForms :
        \A k \in WfKeys :
            /\ RatingField(k) \in DOMAIN f => f[RatingField(k)] \in RatingTexts
            /\ ApproveField(k) \in DOMAIN f => f[ApproveField(k)] = On}

----------------------------------------------------------------------------
(* The workflow: detection passes and form submissions, one at a time.     *)
(* lastOp = "none" between operations; after an operation the variables    *)
(* last* and ratingsBefore describe it until its caller has the answer.    *)

FhIdle ==
    /\ chat_spikes = <<>>
    /\ audio_peaks = <<>>
    /\ window = 0
    /\ fh_result = <<>>
    /\ fh_pc = "idle"

Init == FhIdle /\ WfIdle /\ RcIdle /\ PsIdle /\ RestIdle

\* approval_dashboard handling a POST with the given form
PostRatings(form) ==
    LET r == PostLoop(highlights, ratings, form)
    IN /\ ratings' = IF r.raised THEN ratings ELSE r.ratings
       /\ lastStatus' = IF r.raised THEN "500" ELSE "302"
       /\ ratingsBefore' = ratings
       /\ lastForm' = form
       /\ lastInputs' = <<>>
       /\ lastEnv' = NoEnv
       /\ UNCHANGED highlights
       /\ UNCHANGED offWf

Post ==
    /\ lastOp = "none"
    /\ lastOp' = "post"
    /\ \E form \in Forms : PostRatings(form)

\* the same form sent a second time, right after the first
PostAgain ==
    /\ lastOp = "post"
    /\ lastOp' = "repost"
    /\ PostRatings(lastForm)

\* what load_chat_log meets: a JSON list of {timestamp, message} records, no
\* file, text that is not JSON, records without the 'timestamp' (or
\* 'message') key, timestamps that are not numbers
ChatLogStates == {"ok", "absent", "notjson", "nokeys", "badtime"}

\* whether the ffmpeg program can be started
FfmpegStates == {"ok", "absent"}

\* the exception load_chat_log / detect_chat_spikes raise: open(),
\* json.load(), df['timestamp'], pd.to_datetime()
ChatLogError(c) ==
    CASE c = "absent" -> "FileNotFoundError"
      [] c = "notjson" -> "JSONDecodeError"
      [] c = "nokeys" -> "KeyError"
      [] c = "badtime" -> "ValueError"
      [] OTHER -> "none"

\* the exception subprocess.run raises when ffmpeg is not installed
FfmpegError(f) == IF f = "absent" THEN "FileNotFoundError" ELSE "none"

\* the statements of the try block run in order: the chat log is read first
AnalysisError(env) ==
    IF ChatLogError(env.chat) # "none" THEN ChatLogError(env.chat)
    ELSE FfmpegError(env.ffmpeg)

\* except (FileNotFoundError, ValueError, json.JSONDecodeError)
CaughtByDetect == {"FileNotFoundError", "ValueError", "JSONDecodeError"}

\* detect_highlights failing before find_highlights: a caught exception is
\* logged and [] returned, any other leaves detect_highlights; nothing is
\* written either way
DetectFails ==
    /\ lastOp = "none"
    /\ lastOp' = "detect"
    /\ \E env \in [chat : ChatLogStates, ffmpeg : FfmpegStates] :
          /\ AnalysisError(env) # "none"
          /\ lastEnv' = env
          /\ lastStatus' = IF AnalysisError(env) \in CaughtByDetect
                           THEN "failed" ELSE "raised"
    /\ ratingsBefore' = ratings
    /\ lastForm' = <<>>
    /\ lastInputs' = <<>>
    /\ UNCHANGED <<highlights, ratings>>
    /\ UNCHANGED offWf

\* detect_highlights with a readable chat log: correlate, save the
\* highlights, then rate them when there are any; lines is what standard
\* input holds, of which lastInputs keeps the lines that were read
DetectPass(spikes, peaks, lines) ==
    LET found == FindHighlights(spikes, peaks, DefaultWindow)
        r == RateHighlights(found, ratings, lines)
    IN /\ Len(lines) <= Len(found)
       /\ highlights' = found
       /\ IF found = <<>>
          THEN /\ ratings' = ratings
               /\ lastStatus' = "empty"
          ELSE /\ ratings' = IF r.raised THEN ratings ELSE r.ratings
               /\ lastStatus' = IF r.raised THEN "raised" ELSE "rated"
       /\ ratingsBefore' = ratings
       /\ lastForm' = <<>>
       /\ lastInputs' = IF found = <<>> THEN <<>> ELSE SubSeq(lines, 1, r.asked)
       /\ lastEnv' = [chat |-> "ok", ffmpeg |-> "ok"]
       /\ UNCHANGED offWf

Detect ==
    /\ lastOp = "none"
    /\ lastOp' = "detect"
    /\ \E spikes \in WfChatSpikes, peaks \in SeqsUpTo(WfAudioTimes, MaxPeaks) :
          \E lines \in SeqsUpTo(RatingTexts, Cardinality(WfChatTimes)) :
              DetectPass(spikes, peaks, lines)

\* the operation's answer reaches its caller (the redirect of the POST, the
\* list returned by detect_highlights); the stores stay as they are
Respond ==
    /\ lastOp # "none"
    /\ lastOp' = "none"
    /\ lastStatus' = "none"
    /\ ratingsBefore' = <<>>
    /\ lastForm' = <<>>
    /\ lastInputs' = <<>>
    /\ lastEnv' = NoEnv
    /\ UNCHANGED <<highlights, ratings>>
    /\ UNCHANGED offWf

Next == Post \/ PostAgain \/ Detect \/ DetectFails \/ Respond

Spec == Init /\ [][Next]_vars

----------------------------------------------------------------------------
(* Claims about the rating workflow, checked under Spec *)

\* the keys of the highlights now listed in highlights.json
ListedKeys == {Str(highlights[i].timestamp) : i \in DOMAIN highlights}

\* text that is an integer in 1..5
ValidRatingText(v) == ParseInt(v).ok /\ ParseInt(v).value \in 1..5

\* the last operation left the entry of key k as it was (absent or equal)
EntryUnchanged(k) ==
    /\ k \in DOMAIN ratings <=> k \in DOMAIN ratingsBefore
    /\ k \in DOMAIN ratings => ratings[k] = ratingsBefore[k]

\* the last POST sent a rating for the listed highlight k
SubmittedInForm(k) == k \in ListedKeys /\ Truthy(FormGet(lastForm, RatingField(k)))

\* C6: on both entry paths a submitted rating that is not an integer, or is
\* outside 1..5, is rejected: the entry of its timestamp is neither created
\* nor changed, and an unrated highlight stays unrated.
C6_InvalidRatingRejected ==
    /\ lastOp \in {"post", "repost"} =>
          \A k \in ListedKeys :
              (SubmittedInForm(k) /\ ~ValidRatingText(lastForm[RatingField(k)]))
                  => EntryUnchanged(k)
    /\ lastOp = "detect" =>
          \A i \in DOMAIN lastInputs :
              ~ValidRatingText(lastInputs[i])
                  => EntryUnchanged(Str(Prompted(highlights, ratingsBefore)[i].timestamp))

\* C7: every entry of the ratings store is keyed by a timestamp string and is
\* a record {rating, approved} with rating in 1..5 and approved a boolean.
C7_RatingEntriesWellFormed ==
    \A k \in DOMAIN ratings :
        /\ ParseInt(k).ok
        /\ Str(ParseInt(k).value) = k
        /\ DOMAIN ratings[k] = {"rating", "approved"}
        /\ ratings[k].rating \in 1..5
        /\ ratings[k].approved \in BOOLEAN

\* C8: submitting the same form twice in a row leaves the ratings store as
\* the first submission left it.
C8_RatingIdempotent == lastOp = "repost" => ratings = ratingsBefore

\* the second of two equal submissions that rated one highlight, approved
C8_Witness ==
    /\ lastOp = "repost"
    /\ lastStatus = "302"
    /\ \E k \in ListedKeys :
          /\ SubmittedInForm(k)
          /\ FormGet(lastForm, ApproveField(k)) = On
          /\ ratings[k] = RatingEntry(4, TRUE)

C10_RatedStaysRated == [][DOMAIN ratings \subseteq DOMAIN ratings']_vars

\* a detection pass emptied the highlights list and the ratings are kept
C10_Witness ==
    /\ lastOp = "detect"
    /\ lastStatus = "empty"
    /\ DOMAIN ratings = WfKeys
    /\ ListedKeys = {}

\* the console line answered at the prompt for key k in the last pass
LineFor(k) ==
    {lastInputs[i] : i \in {j \in DOMAIN lastInputs :
        Str(Prompted(highlights, ratingsBefore)[j].timestamp) = k}}

\* C11: entries of the ratings store are created or changed only by a value
\* a human entered (console line or form field) for that timestamp, none is
\* removed, and a detection pass that fails or finds no highlight leaves the
\* ratings store as it was.
C11_OnlyHumanInputChangesRatings ==
    /\ lastOp # "none" => DOMAIN ratingsBefore \subseteq DOMAIN ratings
    /\ (lastOp = "detect" /\ lastStatus \in {"failed", "empty"}) => ratings = ratingsBefore
    /\ lastOp = "detect" =>
          \A k \in DOMAIN ratings :
              ~EntryUnchanged(k) =>
                  \E line \in LineFor(k) :
                      ValidRatingText(line) /\ ratings[k] = JsonInt(ParseInt(line).value)
    /\ lastOp \in {"post", "repost"} =>
          \A k \in DOMAIN ratings : ~EntryUnchanged(k) => SubmittedInForm(k)

\* a pass that found two highlights and got one valid answer: one entry
\* appears, the other highlight stays without one
C11_Witness ==
    /\ lastOp = "detect"
    /\ lastStatus = "rated"
    /\ Len(highlights) = 2
    /\ ratingsBefore = <<>>
    /\ Cardinality(DOMAIN ratings) = 1

\* the positions of the listed highlights that had no entry before the pass
UnratedBefore ==
    {i \in DOMAIN highlights : Str(highlights[i].timestamp) \notin DOMAIN ratingsBefore}

\* the keys that were asked for in the last pass and got a number from 1 to 5
ValidlyAnswered ==
    {Str(Prompted(highlights, ratingsBefore)[j].timestamp) :
        j \in {i \in DOMAIN lastInputs : ValidRatingText(lastInputs[i])}}

\* C29: rate_highlights reads one line for each highlight that has no entry
\* and none for the others; when it returns, the ratings store is the store
\* from before plus one entry for each unrated highlight that got a valid
\* 1-5 input, every earlier entry being as it was.
C29_CliOnlyAddsUnrated ==
    (lastOp = "detect" /\ lastStatus = "rated") =>
        /\ Len(lastInputs) = Cardinality(UnratedBefore)
        /\ DOMAIN ratings = DOMAIN ratingsBefore \cup ValidlyAnswered
        /\ \A k \in DOMAIN ratingsBefore : ratings[k] = ratingsBefore[k]
        /\ \A k \in ValidlyAnswered \ DOMAIN ratingsBefore :
              \E line \in LineFor(k) : ratings[k] = JsonInt(ParseInt(line).value)

\* a pass over one rated and one unrated highlight: one line is read, the
\* rated entry written by the dashboard is kept and one entry is added
C29_Witness ==
    /\ lastOp = "detect"
    /\ lastStatus = "rated"
    /\ Len(highlights) = 2
    /\ Len(lastInputs) = 1
    /\ \E k \in DOMAIN ratingsBefore : ratingsBefore[k] = RatingEntry(2, FALSE)
    /\ Cardinality(DOMAIN ratings) = 2
    /\ Cardinality(DOMAIN ratingsBefore) = 1

\* C20: when the chat log is absent, is not JSON or holds records of another
\* shape, detect_highlights logs the failure and returns [] without raising.
C20_DetectNeverRaisesOnBadInput ==
    (lastOp = "detect" /\ lastEnv.chat \in {"absent", "notjson", "nokeys", "badtime"})
        => lastStatus = "failed"

----------------------------------------------------------------------------
(* Two writers of highlight_ratings.json at once. Each loads the file,      *)
(* changes its copy and saves it; save_ratings is open(path, 'w'), which    *)
(* truncates the file, then json.dump and close, which write the text at    *)
(* offset 0 of the writer's own file object.                                *)

\* len(str(n))
DecimalLength(n) == Len(Str(n))

\* length of a dict value in the text json.dump(..., indent=2) writes: a
\* number, or {"rating": r, "approved": true|false} over four lines
JsonValueSize(v) ==
    IF DOMAIN v = {"int"} THEN DecimalLength(v.int)
    ELSE 2 + (14 + DecimalLength(v.rating) + 2)
           + (16 + (IF v.approved THEN 4 ELSE 5) + 1) + 3

RECURSIVE JsonEntriesSize(_, _)
JsonEntriesSize(d, keys) ==
    IF keys = {} THEN 0
    ELSE LET k == CHOOSE x \in keys : TRUE
         IN (2 + (Len(k) + 2) + 2 + JsonValueSize(d[k])) + JsonEntriesSize(d, keys \ {k})

\* length of the text of dict d: "{}" or "{\n" entries joined by ",\n" "\n}"
JsonSize(d) ==
    IF DOMAIN d = {} THEN 2
    ELSE 2 + JsonEntriesSize(d, DOMAIN d) + 2 * (Cardinality(DOMAIN d) - 1) + 2

\* the highlights both writers rate
RaceHighlights == <<Highlight(10), Highlight(120)>>

\* what a load of the file reads
Observed == [valid |-> rcFile.valid, data |-> rcFile.data]

\* the ratings store before the writers start
RaceStores == {<<>>, Put(<<>>, Str(10), RatingEntry(4, TRUE))}

InitRace ==
    /\ \E d \in RaceStores : rcFile = ValidFile(d, JsonSize(d))
    /\ rcPc = [w \in Writers |-> "start"]
    /\ rcSeen = [w \in Writers |-> [valid |-> TRUE, data |-> <<>>]]
    /\ rcLocal = [w \in Writers |-> <<>>]
    /\ rcLast = 0
    /\ rcOverlap = FALSE
    /\ FhIdle
    /\ WfIdle
    /\ PsIdle
    /\ RestIdle

\* approval_dashboard, POST: load_ratings (a file that is not JSON is logged
\* and read as {}), then the loop over the form; ValueError ends the request
RaceLoadPost(w) ==
    /\ rcPc[w] = "start"
    /\ \E form \in Forms :
          LET loaded == IF rcFile.valid THEN rcFile.data ELSE <<>>
              r == PostLoop(RaceHighlights, loaded, form)
          IN /\ rcPc' = [rcPc EXCEPT ![w] = IF r.raised THEN "failed" ELSE "loaded"]
             /\ rcLocal' = [rcLocal EXCEPT ![w] = IF r.raised THEN <<>> ELSE r.ratings]
    /\ rcSeen' = [rcSeen EXCEPT ![w] = Observed]
    /\ UNCHANGED <<rcFile, rcLast, rcOverlap>>
    /\ UNCHANGED offRace

\* rate_highlights: load_ratings (json.load of a file that is not JSON raises
\* JSONDecodeError, which detect_highlights catches), then the prompts
RaceLoadCli(w) ==
    /\ rcPc[w] = "start"
    /\ \E lines \in SeqsUpTo(RatingTexts, Len(RaceHighlights)) :
          LET r == RateHighlights(RaceHighlights, rcFile.data, lines)
              stop == ~rcFile.valid \/ r.raised
          IN /\ rcFile.valid => Len(lines) <= Len(Prompted(RaceHighlights, rcFile.data))
             /\ ~rcFile.valid => lines = <<>>
             /\ rcPc' = [rcPc EXCEPT ![w] = IF stop THEN "failed" ELSE "loaded"]
             /\ rcLocal' = [rcLocal EXCEPT ![w] = IF stop THEN <<>> ELSE r.ratings]
    /\ rcSeen' = [rcSeen EXCEPT ![w] = Observed]
    /\ UNCHANGED <<rcFile, rcLast, rcOverlap>>
    /\ UNCHANGED offRace

\* save_ratings, open(path, 'w'): the file is truncated
RaceOpen(w) ==
    /\ rcPc[w] = "loaded"
    /\ rcPc' = [rcPc EXCEPT ![w] = "opened"]
    /\ rcFile' = BrokenFile(0)
    /\ rcOverlap' = (rcOverlap \/ \E o \in Writers \ {w} : rcPc[o] = "opened")
    /\ UNCHANGED <<rcSeen, rcLocal, rcLast>>
    /\ UNCHANGED offRace

\* the text of a save written over a file of n bytes
WrittenOver(d, n) ==
    IF JsonSize(d) >= n THEN ValidFile(d, JsonSize(d)) ELSE BrokenFile(n)

\* a save that replaces the file in one step whatever it held
WrittenWhole(d, n) == ValidFile(d, JsonSize(d))

\* save_ratings, json.dump and close: the text goes to offset 0; bytes another
\* writer put behind its end since the truncation stay in the file
RaceWrite(w) ==
    /\ rcPc[w] = "opened"
    /\ rcPc' = [rcPc EXCEPT ![w] = "saved"]
    /\ rcFile' = WrittenOver(rcLocal[w], rcFile.size)
    /\ rcLast' = w
    /\ UNCHANGED <<rcSeen, rcLocal, rcOverlap>>
    /\ UNCHANGED offRace

RaceLoadPostAny == \E w \in Writers : RaceLoadPost(w)
RaceLoadCliAny == \E w \in Writers : RaceLoadCli(w)
RaceOpenAny == \E w \in Writers : RaceOpen(w)
RaceWriteAny == \E w \in Writers : RaceWrite(w)

NextRace == RaceLoadPostAny \/ RaceLoadCliAny \/ RaceOpenAny \/ RaceWriteAny

SpecRace == InitRace /\ [][NextRace]_vars

----------------------------------------------------------------------------
(* Claims about concurrent writers, checked under SpecRace *)

RaceDone == \A w \in Writers : rcPc[w] \in {"saved", "failed"}

\* C12: when two submissions interleave, the final ratings store is exactly
\* the mapping written by the save that executed last.
C12_LastWriterWins ==
    (RaceDone /\ rcLast # 0) => (rcFile.valid /\ rcFile.data = rcLocal[rcLast])

\* the part of C12 the code keeps: last writer wins when the two saves do
\* not have the file open at the same time
C12_LastWriterWinsWithoutOverlap ==
    (RaceDone /\ rcLast # 0 /\ ~rcOverlap) => (rcFile.valid /\ rcFile.data = rcLocal[rcLast])

\* a lost update: both saved, the saves did not overlap, and the key the
\* first saver added is not in the file
C12_LostUpdateReached ==
    /\ RaceDone
    /\ ~rcOverlap
    /\ \A w \in Writers : rcPc[w] = "saved"
    /\ \E w \in Writers : \E k \in DOMAIN rcLocal[w] : k \notin DOMAIN rcFile.data

\* C13: a load that runs while another writer saves reads a complete
\* mapping, never an empty or partly written file.
C13_LoadSeesCompleteStore ==
    \A w \in Writers : rcPc[w] # "start" => rcSeen[w].valid

----------------------------------------------------------------------------
(* pipeline_status_api.get_pipeline_status: the Kanban view of the videos   *)
(* in the temp directory. A file name is a sequence of parts, the last one  *)
(* being its suffix.                                                        *)

Mp4 == ".mp4"
VideoA == <<"a", Mp4>>
VideoB == <<"b", Mp4>>

\* TEMP_DIR / f"edited_{video_name}"
EditedPath(video_name) == <<"edited_">> \o video_name

\* TEMP_DIR / f"published_{video_name}.flag"
PublishedFlag(video_name) == <<"published_">> \o video_name \o <<".flag">>

\* the files the temp directory can hold, in directory order
TempUniverse == <<VideoA, VideoB, EditedPath(VideoA), PublishedFlag(VideoA)>>

TempNames == {TempUniverse[i] : i \in DOMAIN TempUniverse}

\* [f for f in TEMP_DIR.glob("*.mp4") if f.is_file()]
GlobMp4(temp) ==
    LET Matches(f) == f \in temp /\ f[Len(f)] = Mp4
    IN SelectSeq(TempUniverse, Matches)

\* JSON null, Python None
JsonNull == [null |-> TRUE]

\* load_json_safe(path) or {}, then the isinstance(..., dict) test
LoadDict(file) == IF file.kind = "dict" THEN file.data ELSE <<>>

\* d.get(k, default)
DictGet(d, k, default) == IF k \in DOMAIN d THEN d[k] ELSE default

\* del d[k]
Drop(d, k) == [x \in (DOMAIN d) \ {k} |-> d[x]]

DetectionInfo(video_name, highlight_json, ratings_json) ==
    LET rating == DictGet(ratings_json, video_name, JsonNull)
    IN [video |-> video_name,
        highlights |-> DictGet(highlight_json, video_name, <<>>),
        rating |-> rating,
        approved |-> (rating # JsonNull)]

EditingInfo(video_name, temp) ==
    LET exists == EditedPath(video_name) \in temp
    IN [edited |-> exists,
        edited_path |-> IF exists THEN EditedPath(video_name) ELSE NoneValue]

PublishingInfo(video_name, temp) ==
    LET exists == PublishedFlag(video_name) \in temp
    IN [published |-> exists,
        output_location |-> IF exists THEN PublishedFlag(video_name) ELSE NoneValue]

\* status[stage].append(row)
AppendRow(status, stage, row) == [status EXCEPT ![stage] = Append(@, row)]

IngestedRow(video_name) == [video |-> video_name, status |-> "Ready for Detection"]

\* the Kanban column of a video that is in highlight.json, with its row
Column(video_name, temp, highlight_json, ratings_json) ==
    LET d == DetectionInfo(video_name, highlight_json, ratings_json)
        e == EditingInfo(video_name, temp)
        p == PublishingInfo(video_name, temp)
    IN IF ~d.approved THEN [stage |-> "Detection", row |-> d]
       ELSE IF ~e.edited
            THEN [stage |-> "Editing",
                  row |-> [video |-> d.video, highlights |-> d.highlights,
                           rating |-> d.rating, approved |-> d.approved,
                           edited |-> e.edited, edited_path |-> e.edited_path]]
            ELSE [stage |-> "Publishing",
                  row |-> [video |-> d.video, highlights |-> d.highlights,
                           rating |-> d.rating, approved |-> d.approved,
                           edited |-> e.edited, edited_path |-> e.edited_path,
                           published |-> p.published,
                           output_location |-> p.output_location]]

\* the loop body without the 'continue' after the Ingested row
LoopBodyNoContinue(status, video_name, temp, highlight_json, ratings_json) ==
    LET c == Column(video_name, temp, highlight_json, ratings_json)
        first == IF video_name \notin DOMAIN highlight_json
                 THEN AppendRow(status, "Ingested", IngestedRow(video_name))
                 ELSE status
    IN AppendRow(first, c.stage, c.row)

\* the body of 'for video_path in video_files'
LoopBody(status, video_name, temp, highlight_json, ratings_json) ==
    IF video_name \notin DOMAIN highlight_json
    THEN AppendRow(status, "Ingested", IngestedRow(video_name))
    ELSE LET c == Column(video_name, temp, highlight_json, ratings_json)
         IN AppendRow(status, c.stage, c.row)

RECURSIVE VideoLoop(_, _, _, _, _)
VideoLoop(status, video_files, temp, highlight_json, ratings_json) ==
    IF video_files = <<>> THEN status
    ELSE VideoLoop(LoopBody(status, Head(video_files), temp, highlight_json, ratings_json),
                   Tail(video_files), temp, highlight_json, ratings_json)

MockRow(text) == [video |-> <<text>>, status |-> "All processed"]

MockText ==
    [Ingested |-> "No videos awaiting detection", Detection |-> "No videos in detection",
     Editing |-> "No videos in editing", Publishing |-> "No videos in publishing"]

Stages == {"Ingested", "Detection", "Editing", "Publishing"}

\* a placeholder row in every column that is empty
AddMockRows(status) ==
    [stage \in Stages |-> IF status[stage] = <<>> THEN <<MockRow(MockText[stage])>>
                          ELSE status[stage]]

GetPipelineStatus(temp, highlight_file, ratings_file) ==
    AddMockRows(VideoLoop(EmptyStatus, GlobMp4(temp), temp,
                          LoadDict(highlight_file), LoadDict(ratings_file)))

\* the lists highlight.json can hold for a video
HighlightLists(video_name) ==
    IF video_name = VideoA
    THEN {<<>>, <<Highlight(10)>>, <<Highlight(10), Highlight(120)>>}
    ELSE {<<Highlight(120)>>}

\* the values highlight_ratings.json can hold under a key: what the approval
\* dashboard writes under a timestamp, and an entry or null under a video name
RatingValues(k) ==
    IF k = Str(10) THEN {RatingEntry(4, TRUE), RatingEntry(2, FALSE)}
    ELSE IF k = Str(120) THEN {RatingEntry(4, TRUE)}
    ELSE {RatingEntry(5, TRUE), JsonNull}

StatusRatingKeys == {Str(10), Str(120), VideoA}

InitStatus ==
    /\ PsIdle
    /\ FhIdle
    /\ WfIdle
    /\ RcIdle
    /\ RestIdle

\* files and entries change between two queries at most once, so that the
\* answer before the change is still at hand
CanChange == psOp = "none" \/ (psOp = "query" /\ psPrev = EmptyStatus)

Changed ==
    /\ psOp' = IF psOp = "query" THEN "change" ELSE psOp
    /\ UNCHANGED <<psStatus, psPrev>>
    /\ UNCHANGED offStatus

\* a file appears in the temp directory
AddFile ==
    /\ CanChange
    /\ \E f \in TempNames \ psTemp : psTemp' = psTemp \cup {f}
    /\ UNCHANGED <<psHighlights, psRatings>>
    /\ Changed

\* a file is removed from the temp directory
RemoveFile ==
    /\ CanChange
    /\ \E f \in psTemp : psTemp' = psTemp \ {f}
    /\ UNCHANGED <<psHighlights, psRatings>>
    /\ Changed

\* highlight.json gets or replaces the entry of a video
SetHighlights ==
    /\ CanChange
    /\ \E v \in {VideoA, VideoB} : \E list \in HighlightLists(v) :
          /\ (v \in DOMAIN LoadDict(psHighlights)) => LoadDict(psHighlights)[v] # list
          /\ psHighlights' = StoreFile("dict", Put(LoadDict(psHighlights), v, list))
    /\ UNCHANGED <<psTemp, psRatings>>
    /\ Changed

\* highlight.json loses the entry of a video
DropHighlights ==
    /\ CanChange
    /\ \E v \in DOMAIN LoadDict(psHighlights) :
          psHighlights' = StoreFile("dict", Drop(LoadDict(psHighlights), v))
    /\ UNCHANGED <<psTemp, psRatings>>
    /\ Changed

\* highlight.json is replaced by a JSON list
ListHighlights ==
    /\ CanChange
    /\ psHighlights.kind # "list"
    /\ psHighlights' = StoreFile("list", <<>>)
    /\ UNCHANGED <<psTemp, psRatings>>
    /\ Changed

\* highlight_ratings.json gets or replaces an entry
SetRating ==
    /\ CanChange
    /\ \E k \in StatusRatingKeys : \E v \in RatingValues(k) :
          /\ (k \in DOMAIN LoadDict(psRatings)) => LoadDict(psRatings)[k] # v
          /\ psRatings' = StoreFile("dict", Put(LoadDict(psRatings), k, v))
    /\ UNCHANGED <<psTemp, psHighlights>>
    /\ Changed

\* highlight_ratings.json loses an entry
DropRating ==
    /\ CanChange
    /\ \E k \in DOMAIN LoadDict(psRatings) :
          psRatings' = StoreFile("dict", Drop(LoadDict(psRatings), k))
    /\ UNCHANGED <<psTemp, psHighlights>>
    /\ Changed

\* highlight_ratings.json is replaced by a JSON list
ListRatings ==
    /\ CanChange
    /\ psRatings.kind # "list"
    /\ psRatings' = StoreFile("list", <<>>)
    /\ UNCHANGED <<psTemp, psHighlights>>
    /\ Changed

\* an endpoint that answers from the status it computed before
QueryCached ==
    /\ psStatus' = IF psStatus = EmptyStatus
                   THEN GetPipelineStatus(psTemp, psHighlights, psRatings)
                   ELSE psStatus
    /\ psPrev' = psStatus
    /\ psOp' = "query"
    /\ UNCHANGED <<psTemp, psHighlights, psRatings>>
    /\ UNCHANGED offStatus

\* GET /pipeline_status
Query ==
    /\ psStatus' = GetPipelineStatus(psTemp, psHighlights, psRatings)
    /\ psPrev' = psStatus
    /\ psOp' = "query"
    /\ UNCHANGED <<psTemp, psHighlights, psRatings>>
    /\ UNCHANGED offStatus

\* the answers are with the client and no longer compared
Forget ==
    /\ psOp # "none"
    /\ psStatus' = EmptyStatus
    /\ psPrev' = EmptyStatus
    /\ psOp' = "none"
    /\ UNCHANGED <<psTemp, psHighlights, psRatings>>
    /\ UNCHANGED offStatus

NextStatus ==
    \/ AddFile
    \/ RemoveFile
    \/ SetHighlights
    \/ DropHighlights
    \/ ListHighlights
    \/ SetRating
    \/ DropRating
    \/ ListRatings
    \/ Query
    \/ Forget

SpecStatus == InitStatus /\ [][NextStatus]_vars

----------------------------------------------------------------------------
(* Claims about the pipeline stages, checked under SpecStatus *)

\* psStatus is the answer to a query over the files and stores as they are now
Answered == psOp = "query"

StatusVideos == {GlobMp4(psTemp)[i] : i \in DOMAIN GlobMp4(psTemp)}

RowsOf(stage, v) == {i \in DOMAIN psStatus[stage] : psStatus[stage][i].video = v}

InStage(v, stage) == RowsOf(stage, v) # {}

RowCount(v) ==
    Cardinality(RowsOf("Ingested", v)) + Cardinality(RowsOf("Detection", v))
        + Cardinality(RowsOf("Editing", v)) + Cardinality(RowsOf("Publishing", v))

\* the highlights highlight.json holds for a video
HighlightsOf(v) == DictGet(LoadDict(psHighlights), v, <<>>)

HasHighlights(v) == HighlightsOf(v) # <<>>

\* the highlight's timestamp, as a string, is a key of the ratings store
RatedAt(h) == Str(h.timestamp) \in DOMAIN LoadDict(psRatings)

AllRated(v) == \A i \in DOMAIN HighlightsOf(v) : RatedAt(HighlightsOf(v)[i])

SomeRejected(v) ==
    \E i \in DOMAIN HighlightsOf(v) :
        /\ RatedAt(HighlightsOf(v)[i])
        /\ ~LoadDict(psRatings)[Str(HighlightsOf(v)[i].timestamp)].approved

\* every key of the ratings store is a timestamp, as the approval dashboard
\* and the console write them
WrittenByWorkflow == DOMAIN LoadDict(psRatings) \subseteq {Str(10), Str(120)}

\* C14: every video file of the temp directory is in one and only one of the
\* four stage lists, once, whatever the stores hold.
C14_EachVideoInExactlyOneStage ==
    Answered => \A v \in StatusVideos : RowCount(v) = 1

C14_Witness ==
    /\ Answered
    /\ InStage(VideoA, "Publishing")
    /\ InStage(VideoB, "Detection")
    /\ InStage(EditedPath(VideoA), "Ingested")
    /\ psHighlights.kind = "dict"

\* C15: a video file with zero highlights (no entry in the highlights store,
\* or an entry holding an empty list) is Ingested and not Detection.
C15_ZeroHighlightsIsIngested ==
    Answered => \A v \in StatusVideos :
        ~HasHighlights(v) => (InStage(v, "Ingested") /\ ~InStage(v, "Detection"))

C17_AllApprovedIsEditing ==
    (Answered /\ WrittenByWorkflow) => \A v \in StatusVideos :
        (HasHighlights(v) /\ AllRated(v) /\ ~SomeRejected(v) /\ EditedPath(v) \notin psTemp)
            => InStage(v, "Editing")

\* C18: a video for which the edited output file exists is in Publishing.
C18_EditedIsPublishing ==
    Answered => \A v \in StatusVideos :
        EditedPath(v) \in psTemp => InStage(v, "Publishing")

----------------------------------------------------------------------------
(* One detection pass, step by step: detect_highlights of                   *)
(* highlight_detector.py ("detector") and of the older module               *)
(* highlight_detection.py ("legacy", which runs ffmpeg with check=True and  *)
(* has no rating step).                                                     *)

\* a line of ffmpeg's stderr: whether it contains 'silence_end:' and the
\* text between that marker and the next '|'
StderrLine(marked, text) == [marked |-> marked, time |-> text]

\* int(float(time_str)) after strip(): digits, optionally '.' and digits;
\* anything else raises ValueError (ok = FALSE)
IntOfFloat(text) ==
    LET t == StripRight(StripLeft(text))
        dots == {i \in DOMAIN t : t[i] = "."}
        whole == IF dots = {} THEN t ELSE SubSeq(t, 1, (CHOOSE i \in dots : TRUE) - 1)
        frac == IF dots = {} THEN <<>> ELSE SubSeq(t, (CHOOSE i \in dots : TRUE) + 1, Len(t))
    IN IF /\ Cardinality(dots) <= 1
          /\ whole # <<>>
          /\ \A i \in DOMAIN whole : IsDigit(whole[i])
          /\ \A i \in DOMAIN frac : IsDigit(frac[i])
       THEN [ok |-> TRUE, value |-> DigitsValue(whole)]
       ELSE [ok |-> FALSE, value |-> 0]

\* the loop over result.stderr.split('\n'): a marked line whose time parses
\* appends a peak, a marked line whose time does not parse is skipped
RECURSIVE ParsePeaks(_)
ParsePeaks(lines) ==
    IF lines = <<>> THEN <<>>
    ELSE (IF Head(lines).marked /\ IntOfFloat(Head(lines).time).ok
          THEN <<IntOfFloat(Head(lines).time).value>> ELSE <<>>)
         \o ParsePeaks(Tail(lines))

\* subprocess.run raises CalledProcessError for a non-zero exit code only
\* with check=True, which highlight_detection.py passes and audio_analysis.py
\* does not
RunRaises(variant, exit) == variant = "legacy" /\ exit # 0

\* the exception detect_audio_peaks_ffmpeg leaves with, if any
AudioError(variant, env) ==
    IF env.ffmpeg = "absent" THEN "FileNotFoundError"
    ELSE IF RunRaises(variant, env.exit) THEN "CalledProcessError"
    ELSE "none"

\* the statements of the try block that rate before the file is written
StepAfterRateFirst(step, found, variant) ==
    CASE step = "chat" -> "audio"
      [] step = "audio" -> "correlate"
      [] step = "correlate" -> IF found # <<>> /\ variant = "detector" THEN "rate" ELSE "persist"
      [] step = "rate" -> "persist"
      [] step = "persist" -> "return"
      [] OTHER -> "done"

\* the statements of the try block in program order
StepAfter(step, found, variant) ==
    CASE step = "chat" -> "audio"
      [] step = "audio" -> "correlate"
      [] step = "correlate" -> "persist"
      [] step = "persist" -> IF found # <<>> /\ variant = "detector" THEN "rate" ELSE "return"
      [] step = "rate" -> "return"
      [] OTHER -> "done"

\* the lines ffmpeg can write to stderr
StderrLines ==
    {StderrLine(FALSE, <<>>),
     StderrLine(TRUE, <<" ", "2", "0", ".", "5", " ">>),
     StderrLine(TRUE, <<" ", "1", "3", "0", " ">>),
     StderrLine(TRUE, <<" ", "x", " ">>)}

\* highlights written to output_path by an earlier pass
OldHighlights == <<Highlight(5)>>

DetectEnvs ==
    [chat : ChatLogStates, spikes : WfChatSpikes, ffmpeg : FfmpegStates,
     exit : {0, 1}, stderr : SeqsUpTo(StderrLines, MaxPeaks)]

InitDetect ==
    /\ dtVariant \in {"detector", "legacy"}
    /\ dtEnv \in {e \in DetectEnvs :
                    /\ e.chat # "ok" => (e.spikes = <<>> /\ e.ffmpeg = "ok")
                    /\ (e.chat # "ok" \/ e.ffmpeg # "ok") => (e.exit = 0 /\ e.stderr = <<>>)}
    /\ dtPc = "chat"
    /\ dtSpikes = <<>>
    /\ dtPeaks = <<>>
    /\ dtFound = <<>>
    /\ dtHighlights = OldHighlights
    /\ dtRatings \in {<<>>, Put(<<>>, Str(10), RatingEntry(4, TRUE))}
    /\ dtReturn = <<>>
    /\ dtTrace = <<>>
    /\ FhIdle
    /\ WfIdle
    /\ RcIdle
    /\ PsIdle
    /\ BgIdle
    /\ SlIdle
    /\ ApIdle
    /\ EvIdle

\* a step completed: the next statement of the try block is reached
Advance(step, found) ==
    /\ dtPc' = StepAfter(step, found, dtVariant)
    /\ dtTrace' = Append(dtTrace, step)

\* an exception leaves the try block: the except clause returns [] for the
\* ones it names, any other reaches the caller
Leave(err) ==
    /\ dtPc' = IF err \in CaughtByDetect THEN "done" ELSE "raised"
    /\ dtReturn' = <<>>
    /\ UNCHANGED <<dtTrace, dtSpikes, dtPeaks, dtFound, dtHighlights, dtRatings>>

\* load_chat_log, detect_chat_spikes
AnalyseChat ==
    /\ dtPc = "chat"
    /\ IF ChatLogError(dtEnv.chat) # "none"
       THEN Leave(ChatLogError(dtEnv.chat))
       ELSE /\ dtSpikes' = dtEnv.spikes
            /\ Advance("chat", dtFound)
            /\ UNCHANGED <<dtPeaks, dtFound, dtHighlights, dtRatings, dtReturn>>
    /\ UNCHANGED <<dtVariant, dtEnv>>
    /\ UNCHANGED offDetect

\* detect_audio_peaks_ffmpeg
AnalyseAudio ==
    /\ dtPc = "audio"
    /\ IF AudioError(dtVariant, dtEnv) # "none"
       THEN Leave(AudioError(dtVariant, dtEnv))
       ELSE /\ dtPeaks' = ParsePeaks(dtEnv.stderr)
            /\ Advance("audio", dtFound)
            /\ UNCHANGED <<dtSpikes, dtFound, dtHighlights, dtRatings, dtReturn>>
    /\ UNCHANGED <<dtVariant, dtEnv>>
    /\ UNCHANGED offDetect

\* find_highlights(chat_spikes, audio_peaks)
Correlate ==
    /\ dtPc = "correlate"
    /\ dtFound' = FindHighlights(dtSpikes, dtPeaks, DefaultWindow)
    /\ Advance("correlate", dtFound')
    /\ UNCHANGED <<dtSpikes, dtPeaks, dtHighlights, dtRatings, dtReturn>>
    /\ UNCHANGED <<dtVariant, dtEnv>>
    /\ UNCHANGED offDetect

\* save_highlights_json(highlights, output_path)
Persist ==
    /\ dtPc = "persist"
    /\ dtHighlights' = dtFound
    /\ Advance("persist", dtFound)
    /\ UNCHANGED <<dtSpikes, dtPeaks, dtFound, dtRatings, dtReturn>>
    /\ UNCHANGED <<dtVariant, dtEnv>>
    /\ UNCHANGED offDetect

\* rate_highlights(highlights); an EOFError at input() is not caught
Rate ==
    /\ dtPc = "rate"
    /\ \E lines \in SeqsUpTo(RatingTexts, Len(dtFound)) :
          LET r == RateHighlights(dtFound, dtRatings, lines)
          IN IF r.raised
             THEN Leave("EOFError")
             ELSE /\ r.asked = Len(lines)
                  /\ dtRatings' = r.ratings
                  /\ Advance("rate", dtFound)
                  /\ UNCHANGED <<dtSpikes, dtPeaks, dtFound, dtHighlights, dtReturn>>
    /\ UNCHANGED <<dtVariant, dtEnv>>
    /\ UNCHANGED offDetect

\* return highlights
Return ==
    /\ dtPc = "return"
    /\ dtReturn' = dtFound
    /\ Advance("return", dtFound)
    /\ UNCHANGED <<dtSpikes, dtPeaks, dtFound, dtHighlights, dtRatings>>
    /\ UNCHANGED <<dtVariant, dtEnv>>
    /\ UNCHANGED offDetect

NextDetect == AnalyseChat \/ AnalyseAudio \/ Correlate \/ Persist \/ Rate \/ Return

SpecDetect == InitDetect /\ [][NextDetect]_vars

----------------------------------------------------------------------------
(* Claims about one detection pass, checked under SpecDetect *)

\* ffmpeg was started and ended with a non-zero exit code
AudioFailed == dtEnv.chat = "ok" /\ dtEnv.ffmpeg = "ok" /\ dtEnv.exit # 0

\* C21: when the audio analyzer exits with a non-zero code the pass is
\* given up: the audio peak list stays empty, no highlight is found from the
\* failed run's output, and detect_highlights does not raise.
C21_AudioFailureYieldsNothing ==
    AudioFailed => (dtPeaks = <<>> /\ dtFound = <<>> /\ dtPc # "raised")

StepOrder == <<"chat", "audio", "correlate", "persist", "rate", "return">>

StepPosition(step) == CHOOSE i \in DOMAIN StepOrder : StepOrder[i] = step

Completed(step) == \E i \in DOMAIN dtTrace : dtTrace[i] = step

\* C22: the steps of a pass complete in the order analyse, correlate,
\* persist, rate; when the rating workflow starts the highlights file already
\* holds the correlated list, and it starts only for a non-empty list; with
\* an empty list the file is written and no rating takes place.
C22_PersistBeforeRate ==
    dtVariant = "detector" =>
        /\ \A i \in DOMAIN dtTrace :
              i > 1 => StepPosition(dtTrace[i - 1]) < StepPosition(dtTrace[i])
        /\ Completed("persist") =>
              (Completed("chat") /\ Completed("audio") /\ Completed("correlate"))
        /\ (dtPc = "rate" \/ Completed("rate")) =>
              (Completed("persist") /\ dtFound # <<>> /\ dtHighlights = dtFound)
        /\ Completed("return") =>
              /\ dtHighlights = dtFound
              /\ dtReturn = dtFound
              /\ Completed("rate") <=> dtFound # <<>>

\* a pass that found two highlights, wrote them and then got them rated
C22_Witness ==
    /\ dtVariant = "detector"
    /\ dtPc = "done"
    /\ dtTrace = StepOrder
    /\ Len(dtHighlights) = 2
    /\ Cardinality(DOMAIN dtRatings) = 2

\* a pass that found nothing: the file is rewritten with the empty list
C22_EmptyListReached ==
    /\ dtVariant = "detector"
    /\ dtPc = "done"
    /\ Completed("return")
    /\ ~Completed("rate")
    /\ dtHighlights = <<>>

----------------------------------------------------------------------------
(* run_step and run_evaluation of the approval app: the handler starts a    *)
(* daemon thread that runs the script with subprocess.run and returns.      *)

Requests == {1, 2}

\* the keys of script_map
ScriptSteps == {"evaluation", "detection", "editing", "publishing"}

\* jsonify({'status': 'started', ...}), 202
Started == 202

\* jsonify({'status': 'error', ...}), 400
NoScript == 400

\* a handler that joins the thread and reports its failure
AckCodeJoined(thread) == IF thread \in {"exit1", "oserror"} THEN 500 ELSE Started

\* the status the handler returns after thread.start(): the thread is not
\* looked at
AckCode(thread) == Started

\* how subprocess.run ends in the thread
Outcomes == {"ok", "exit1", "oserror"}

\* the level of the record the thread logs last: the output of a successful
\* run at INFO, CalledProcessError and OSError at ERROR
LogLevel(outcome) == IF outcome = "ok" THEN "info" ELSE "error"

\* an exception caught inside the thread's function does not leave it
ServerAfter(outcome) == "up"

InitStep ==
    /\ bgReq = [r \in Requests |-> [endpoint |-> "none", step |-> "none", exists |-> FALSE]]
    /\ bgPc = [r \in Requests |-> "new"]
    /\ bgCode = [r \in Requests |-> 0]
    /\ bgThread = [r \in Requests |-> "none"]
    /\ bgLog = {}
    /\ bgServer = "up"
    /\ FhIdle
    /\ WfIdle
    /\ RcIdle
    /\ PsIdle
    /\ DtIdle
    /\ SlIdle
    /\ ApIdle
    /\ EvIdle

\* POST /run_step/<step>: no script for the step, or thread.start()
RunStep(r) ==
    /\ bgPc[r] = "new"
    /\ bgServer = "up"
    /\ \E step \in ScriptSteps \cup {"other"}, exists \in BOOLEAN :
          /\ bgReq' = [bgReq EXCEPT ![r] = [endpoint |-> "run_step", step |-> step,
                                            exists |-> exists]]
          /\ IF step \notin ScriptSteps \/ ~exists
             THEN /\ bgPc' = [bgPc EXCEPT ![r] = "answered"]
                  /\ bgCode' = [bgCode EXCEPT ![r] = NoScript]
                  /\ UNCHANGED bgThread
             ELSE /\ bgPc' = [bgPc EXCEPT ![r] = "accepted"]
                  /\ bgThread' = [bgThread EXCEPT ![r] = "running"]
                  /\ UNCHANGED bgCode
    /\ UNCHANGED <<bgLog, bgServer>>
    /\ UNCHANGED offStep

\* POST /run_evaluation: thread.start(), whether evaluation.py exists or not
RunEvaluation(r) ==
    /\ bgPc[r] = "new"
    /\ bgServer = "up"
    /\ \E exists \in BOOLEAN :
          bgReq' = [bgReq EXCEPT ![r] = [endpoint |-> "run_evaluation",
                                         step |-> "evaluation", exists |-> exists]]
    /\ bgPc' = [bgPc EXCEPT ![r] = "accepted"]
    /\ bgThread' = [bgThread EXCEPT ![r] = "running"]
    /\ UNCHANGED <<bgCode, bgLog, bgServer>>
    /\ UNCHANGED offStep

\* return jsonify({'status': 'started', ...}), 202
Acknowledge(r) ==
    /\ bgPc[r] = "accepted"
    /\ bgPc' = [bgPc EXCEPT ![r] = "answered"]
    /\ bgCode' = [bgCode EXCEPT ![r] = AckCode(bgThread[r])]
    /\ UNCHANGED <<bgReq, bgThread, bgLog, bgServer>>
    /\ UNCHANGED offStep

\* background_run / run_evaluation_script: subprocess.run(..., check=True)
\* ends; python given a script that does not exist exits with a non-zero code
ThreadEnds(r) ==
    /\ bgThread[r] = "running"
    /\ \E outcome \in Outcomes :
          /\ ~bgReq[r].exists => outcome # "ok"
          /\ bgThread' = [bgThread EXCEPT ![r] = outcome]
          /\ bgLog' = bgLog \cup {<<r, LogLevel(outcome)>>}
          /\ bgServer' = ServerAfter(outcome)
    /\ UNCHANGED <<bgReq, bgPc, bgCode>>
    /\ UNCHANGED offStep

RunStepAny == \E r \in Requests : RunStep(r)
RunEvaluationAny == \E r \in Requests : RunEvaluation(r)
AcknowledgeAny == \E r \in Requests : Acknowledge(r)
ThreadEndsAny == \E r \in Requests : ThreadEnds(r)

NextStep == RunStepAny \/ RunEvaluationAny \/ AcknowledgeAny \/ ThreadEndsAny

SpecStep == InitStep /\ [][NextStep]_vars

----------------------------------------------------------------------------
(* Claims about background steps, checked under SpecStep *)

----------------------------------------------------------------------------
(* Log scanning: dashboard/evaluation_logic.py, scan_logs_for_errors *)

\* LOG_PATHS, the list evaluate_codebase passes to scan_logs_for_errors
LogPaths == <<"backend.log", "dashboard.log">>

\* the lines a log receives: one holding the keyword "error", one holding none
LogLines == {"error", "ok"}

\* the most lines the logs of the model hold together
MaxLogLines == 3

\* max_lines of scan_logs_for_errors: 200 in the source, scaled down with
\* MaxLogLines so that a log can grow by more than max_lines between scans
ScanMaxLines == 2

\* the bytes of a line on disk, its newline included ("error\n", "ok\n")
LineBytes(line) == IF line = "error" THEN 6 ELSE 3

RECURSIVE FileSize(_)
FileSize(lines) ==
    IF lines = <<>> THEN 0 ELSE LineBytes(Head(lines)) + FileSize(Tail(lines))

\* any(w in line.lower() for w in ["error", "exception", ...])
HasKeyword(line) == line = "error"

\* f.seek(pos): the number of lines that lie before byte pos (pos is always
\* a value f.tell() returned at the end of a line)
RECURSIVE LinesBefore(_, _)
LinesBefore(lines, pos) ==
    IF lines = <<>> \/ pos < LineBytes(Head(lines)) THEN 0
    ELSE 1 + LinesBefore(Tail(lines), pos - LineBytes(Head(lines)))

\* json.load(LOG_STATE_FILE), {} when the file is absent or not JSON
LoadLogState(file) == IF file.kind = "dict" THEN file.data ELSE <<>>

StartOffsetZero(log_state, log_path) == 0

\* last_pos = log_state.get(log_path, 0)
StartOffset(log_state, log_path) == DictGet(log_state, log_path, 0)

\* the body of the loop for one existing log: the lines read from last_pos
\* to the end, the offset f.tell() reports after them, the lines
\* new_lines[-max_lines:] examined and those among them appended to errors
ScanLog(lines, last_pos, max_lines) ==
    LET skipped == LinesBefore(lines, last_pos)
        new_lines == SubSeq(lines, skipped + 1, Len(lines))
        examined == {i \in skipped + 1 .. Len(lines) : i > Len(lines) - max_lines}
    IN  [offset   |-> last_pos + FileSize(new_lines),
         examined |-> examined,
         errors   |-> {i \in examined : HasKeyword(lines[i])}]

\* os.path.exists(log_path)
LogExists(logs, log_path) == logs[log_path] # <<>>

\* the whole loop: one ScanLog per path of log_paths that exists
ScanAll(logs, log_state, log_paths, max_lines) ==
    [p \in {q \in Range(log_paths) : LogExists(logs, q)} |->
        ScanLog(logs[p], StartOffset(log_state, p), max_lines)]

NewLogStateKept(scanned, log_state) == log_state

\* new_log_state: built from {} with one entry per log read by this scan
NewLogState(scanned, log_state) == [p \in DOMAIN scanned |-> scanned[p].offset]

\* for every line of a log, one more when the line is in the set
CountIn(counts, set) == [i \in DOMAIN counts |-> counts[i] + (IF i \in set THEN 1 ELSE 0)]

InitScan ==
    /\ slLogs = [p \in Range(LogPaths) |-> <<>>]
    /\ slState = StoreFile("absent", <<>>)
    /\ slCount = [p \in Range(LogPaths) |-> <<>>]
    /\ slReported = [p \in Range(LogPaths) |-> <<>>]
    /\ slStart = [p \in Range(LogPaths) |-> 0]
    /\ slEnd = [p \in Range(LogPaths) |-> 0]
    /\ slPrevEnd = [p \in Range(LogPaths) |-> 0]
    /\ slLoaded = "none"
    /\ slLost = FALSE
    /\ FhIdle
    /\ WfIdle
    /\ RcIdle
    /\ PsIdle
    /\ DtIdle
    /\ BgIdle
    /\ ApIdle
    /\ EvIdle

\* a logging handler appends one line to a log (the file is created by the
\* first line)
AppendLine(p, line) ==
    /\ Len(slLogs[LogPaths[1]]) + Len(slLogs[LogPaths[2]]) < MaxLogLines
    /\ slLogs' = [slLogs EXCEPT ![p] = Append(@, line)]
    /\ slCount' = [slCount EXCEPT ![p] = Append(@, 0)]
    /\ slReported' = [slReported EXCEPT ![p] = Append(@, 0)]
    /\ UNCHANGED <<slState, slStart, slEnd, slPrevEnd, slLoaded, slLost>>
    /\ UNCHANGED offScan

AppendAny == \E p \in Range(LogPaths), line \in LogLines : AppendLine(p, line)

\* scan_logs_for_errors(LOG_PATHS): load the state, read every existing log
\* from its offset, return the error lines, rewrite the state file
ScanLogsForErrors ==
    LET log_state == LoadLogState(slState)
        scanned == ScanAll(slLogs, log_state, LogPaths, ScanMaxLines)
        read == DOMAIN scanned
    IN  /\ slLoaded' = slState.kind
        /\ slStart' = [p \in Range(LogPaths) |->
                          IF p \in read THEN StartOffset(log_state, p) ELSE slStart[p]]
        /\ slPrevEnd' = [p \in Range(LogPaths) |->
                          IF p \in read THEN slEnd[p] ELSE slPrevEnd[p]]
        /\ slEnd' = [p \in Range(LogPaths) |->
                          IF p \in read THEN scanned[p].offset ELSE slEnd[p]]
        /\ slCount' = [p \in Range(LogPaths) |->
                          IF p \in read THEN CountIn(slCount[p], scanned[p].examined)
                          ELSE slCount[p]]
        /\ slReported' = [p \in Range(LogPaths) |->
                          IF p \in read THEN CountIn(slReported[p], scanned[p].errors)
                          ELSE slReported[p]]
        /\ slState' = StoreFile("dict", NewLogState(scanned, log_state))
        /\ UNCHANGED <<slLogs, slLost>>
        /\ UNCHANGED offScan

\* the state file is deleted, or left holding something that is not JSON
StateFileLost(kind) ==
    /\ slState.kind = "dict"
    /\ ~slLost
    /\ slState' = StoreFile(kind, <<>>)
    /\ slLost' = TRUE
    /\ UNCHANGED <<slLogs, slCount, slReported, slStart, slEnd, slPrevEnd, slLoaded>>
    /\ UNCHANGED offScan

StateFileLostAny == \E kind \in {"absent", "corrupt"} : StateFileLost(kind)

NextScan == AppendAny \/ ScanLogsForErrors \/ StateFileLostAny

SpecScan == InitScan /\ [][NextScan]_vars

----------------------------------------------------------------------------
(* Claims about log scanning, checked under SpecScan *)

\* the lines of log p that lie before the offset the last scan ended at
Covered(p) == 1 .. LinesBefore(slLogs[p], slEnd[p])

C28_NoErrorLineLost ==
    ~slLost =>
        \A p \in Range(LogPaths) :
            \A i \in Covered(p) : HasKeyword(slLogs[p][i]) => slReported[p][i] = 1

----------------------------------------------------------------------------
(* Pipeline status of the approval app: highlight_approval/approval_app.py *)

\* an edited clip of video a, named like original_highlight.mp4
EditedA10 == <<"a", "_", "10", Mp4>>
EditedA20 == <<"a", "_", "20", Mp4>>

\* the files each directory can hold, in directory order
AppTempUniverse == <<VideoA, VideoB>>
AppEditedUniverse == <<EditedA10, EditedA20>>
AppPublishedUniverse == <<EditedA10>>

\* list(dir.glob('*.mp4')) if dir.exists() else []
AppGlob(universe, dir) ==
    LET Matches(f) == f \in dir /\ f[Len(f)] = Mp4
    IN SelectSeq(universe, Matches)

\* Path.stem: the name without its suffix
Stem(name) == SubSeq(name, 1, Len(name) - 1)

\* text.startswith(prefix)
StartsWith(text, prefix) ==
    Len(prefix) <= Len(text) /\ SubSeq(text, 1, Len(prefix)) = prefix

\* text.endswith(suffix)
EndsWith(text, suffix) ==
    Len(suffix) <= Len(text)
        /\ SubSeq(text, Len(text) - Len(suffix) + 1, Len(text)) = suffix

\* text.split('_')[0]
RECURSIVE SplitFirst(_)
SplitFirst(text) ==
    IF text = <<>> \/ Head(text) = "_" THEN <<>>
    ELSE <<Head(text)>> \o SplitFirst(Tail(text))

\* video_name.replace('.mp4', '')
RECURSIVE RemoveMp4(_)
RemoveMp4(text) ==
    IF text = <<>> THEN <<>>
    ELSE IF Head(text) = Mp4 THEN RemoveMp4(Tail(text))
    ELSE <<Head(text)>> \o RemoveMp4(Tail(text))

\* json.load of highlights.json when the file exists and parses, else []
AppLoadHighlights(file) == IF file.kind = "list" THEN file.data ELSE <<>>

\* json.load of highlight_ratings.json when the file exists and parses, else {}
AppLoadRatings(file) == IF file.kind = "dict" THEN file.data ELSE <<>>

\* [h for h in highlights if h.get('video') == video_name]
GetHighlightsForVideo(hs, video_name) ==
    LET OfVideo(h) == DictGet(h, "video", NoneValue) = video_name
    IN SelectSeq(hs, OfVideo)

\* ratings.get(str(ts), {}).get('approved', False)
HighlightApproved(rs, ts) ==
    IF Str(ts) \in DOMAIN rs THEN rs[Str(ts)].approved ELSE FALSE

\* ratings.get(str(ts), {}).get('rating')
HighlightRating(rs, ts) ==
    IF Str(ts) \in DOMAIN rs THEN <<rs[Str(ts)].rating>> ELSE NoneValue

\* the row of a video that stays in detection with its highlights
ReviewRow(video_name, video_highlights, rs) ==
    [video |-> video_name,
     highlights |-> [i \in DOMAIN video_highlights |->
        [timestamp |-> video_highlights[i].timestamp,
         approved  |-> HighlightApproved(rs, video_highlights[i].timestamp),
         rating    |-> HighlightRating(rs, video_highlights[i].timestamp)]]]

\* the row of a video whose highlights are all approved
EditingRow(video_name, video_highlights, edited_videos) ==
    LET IsOfVideo(e) == StartsWith(Stem(e), RemoveMp4(video_name))
        edited == SelectSeq(edited_videos, IsOfVideo)
        Clip(ts) == LET IsClip(e) == EndsWith(Stem(e), Str(ts))
                    IN  SelectSeq(edited, IsClip)
    IN  [video |-> video_name,
         highlights |-> [i \in DOMAIN video_highlights |->
            [timestamp |-> video_highlights[i].timestamp,
             approved  |-> TRUE,
             edited    |-> Clip(video_highlights[i].timestamp) # <<>>,
             edited_video |-> IF Clip(video_highlights[i].timestamp) # <<>>
                              THEN Head(Clip(video_highlights[i].timestamp))
                              ELSE NoneValue]]]

\* the body of "for v in all_videos"
AppTempRow(status, v, hs, rs, edited_videos) ==
    LET video_highlights == GetHighlightsForVideo(hs, v)
        all_reviewed == \A i \in DOMAIN video_highlights :
                            Str(video_highlights[i].timestamp) \in DOMAIN rs
        all_approved == \A i \in DOMAIN video_highlights :
                            HighlightApproved(rs, video_highlights[i].timestamp)
    IN  IF video_highlights = <<>>
        THEN AppendRow(status, "detection", [video |-> v, highlights |-> <<>>])
        ELSE IF ~all_reviewed
        THEN AppendRow(status, "detection", ReviewRow(v, video_highlights, rs))
        ELSE IF all_approved
        THEN AppendRow(status, "editing", EditingRow(v, video_highlights, edited_videos))
        ELSE AppendRow(status, "detection", ReviewRow(v, video_highlights, rs))

\* the body of "for v in edited_videos"
AppEditedRow(status, v, published_videos) ==
    LET video_name == SplitFirst(v) \o <<Mp4>>
        published == \E i \in DOMAIN published_videos :
                        StartsWith(published_videos[i], Stem(v))
    IN  IF published
        THEN AppendRow(status, "publishing",
                       [video |-> video_name, edited_video |-> v, published |-> TRUE])
        ELSE AppendRow(status, "editing",
                       [video |-> video_name, edited_video |-> v, published |-> FALSE])

RECURSIVE AppTempLoop(_, _, _, _, _)
AppTempLoop(status, all_videos, hs, rs, edited_videos) ==
    IF all_videos = <<>> THEN status
    ELSE AppTempLoop(AppTempRow(status, Head(all_videos), hs, rs, edited_videos),
                     Tail(all_videos), hs, rs, edited_videos)

RECURSIVE AppEditedLoop(_, _, _)
AppEditedLoop(status, edited_videos, published_videos) ==
    IF edited_videos = <<>> THEN status
    ELSE AppEditedLoop(AppEditedRow(status, Head(edited_videos), published_videos),
                       Tail(edited_videos), published_videos)

\* status = {'detection': [], 'editing': [], 'publishing': []}
AppEmptyStatus == [detection |-> <<>>, editing |-> <<>>, publishing |-> <<>>]

\* get_pipeline_status() of approval_app.py
AppGetPipelineStatus(temp, edited_dir, published_dir, highlights_json, ratings_json) ==
    LET hs == AppLoadHighlights(highlights_json)
        rs == AppLoadRatings(ratings_json)
        all_videos == AppGlob(AppTempUniverse, temp)
        edited_videos == AppGlob(AppEditedUniverse, edited_dir)
        published_videos == AppGlob(AppPublishedUniverse, published_dir)
    IN  AppEditedLoop(
            AppTempLoop(AppEmptyStatus, all_videos, hs, rs, edited_videos),
            edited_videos, published_videos)

\* the contents highlights.json takes: written by save_highlights_json
\* (timestamps only), or carrying the 'video' field the approval app reads
AppHighlightLists ==
    { <<>>,
      <<Highlight(10)>>,
      <<[video |-> VideoA, timestamp |-> 10]>>,
      <<[video |-> VideoA, timestamp |-> 10], [video |-> VideoA, timestamp |-> 20]>> }

\* the entries highlight_ratings.json takes for a timestamp
AppRatingEntries == {RatingEntry(4, TRUE), RatingEntry(2, FALSE)}

InitApp ==
    /\ apTemp = {}
    /\ apEdited = {}
    /\ apPublished = {}
    /\ apHighlights = StoreFile("absent", <<>>)
    /\ apRatings = StoreFile("absent", <<>>)
    /\ apStatus = AppEmptyStatus
    /\ apOp = "none"
    /\ FhIdle
    /\ WfIdle
    /\ RcIdle
    /\ PsIdle
    /\ DtIdle
    /\ BgIdle
    /\ SlIdle
    /\ EvIdle

\* what every change of the inputs does to the last answer: it stays as it
\* was returned and no longer belongs to the inputs
AppChanged ==
    /\ apOp' = "none"
    /\ UNCHANGED apStatus
    /\ UNCHANGED offApp

\* a download, an edit or an upload leaves a file in its directory
AppAddVideo ==
    /\ \/ /\ \E f \in Range(AppTempUniverse) \ apTemp : apTemp' = apTemp \cup {f}
          /\ UNCHANGED <<apEdited, apPublished>>
       \/ /\ \E f \in Range(AppEditedUniverse) \ apEdited : apEdited' = apEdited \cup {f}
          /\ UNCHANGED <<apTemp, apPublished>>
       \/ /\ \E f \in Range(AppPublishedUniverse) \ apPublished :
                apPublished' = apPublished \cup {f}
          /\ UNCHANGED <<apTemp, apEdited>>
    /\ UNCHANGED <<apHighlights, apRatings>>
    /\ AppChanged

\* a source video is removed from the temp directory
AppRemoveVideo ==
    /\ \E f \in apTemp : apTemp' = apTemp \ {f}
    /\ UNCHANGED <<apEdited, apPublished, apHighlights, apRatings>>
    /\ AppChanged

\* highlights.json is rewritten
AppSetHighlights ==
    /\ \E list \in AppHighlightLists :
          /\ apHighlights # StoreFile("list", list)
          /\ apHighlights' = StoreFile("list", list)
    /\ UNCHANGED <<apTemp, apEdited, apPublished, apRatings>>
    /\ AppChanged

\* a highlight is rated and approved or rejected
AppSetRating ==
    /\ \E ts \in {10, 20}, entry \in AppRatingEntries :
          /\ (Str(ts) \in DOMAIN AppLoadRatings(apRatings))
                => AppLoadRatings(apRatings)[Str(ts)] # entry
          /\ apRatings' = StoreFile("dict", Put(AppLoadRatings(apRatings), Str(ts), entry))
    /\ UNCHANGED <<apTemp, apEdited, apPublished, apHighlights>>
    /\ AppChanged

\* GET /pipeline_status
AppQuery ==
    /\ apOp = "none"
    /\ apStatus' = AppGetPipelineStatus(apTemp, apEdited, apPublished, apHighlights, apRatings)
    /\ apOp' = "queried"
    /\ UNCHANGED <<apTemp, apEdited, apPublished, apHighlights, apRatings>>
    /\ UNCHANGED offApp

NextApp == AppAddVideo \/ AppRemoveVideo \/ AppSetHighlights \/ AppSetRating \/ AppQuery

SpecApp == InitApp /\ [][NextApp]_vars

----------------------------------------------------------------------------
(* Claims about the approval app's pipeline status, checked under SpecApp *)

\* the video names of the rows of all three lists of a status, in order
AppVideos(status) ==
    LET Names(rows) == [i \in DOMAIN rows |-> rows[i].video]
    IN  Names(status.detection) \o Names(status.editing) \o Names(status.publishing)

\* C26: in the status get_pipeline_status returns, no video name occurs in
\* two of the lists detection, editing, publishing or twice in one of them.
C26_OneStagePerVideo ==
    apOp = "queried" =>
        \A i, j \in DOMAIN AppVideos(apStatus) :
            AppVideos(apStatus)[i] = AppVideos(apStatus)[j] => i = j

\* the first loop alone gives every video of the temp directory one row:
\* without edited clips no video name occurs twice
C26_OneStagePerVideoWithoutEdits ==
    (apOp = "queried" /\ apEdited = {}) =>
        \A i, j \in DOMAIN AppVideos(apStatus) :
            AppVideos(apStatus)[i] = AppVideos(apStatus)[j] => i = j

\* a video with all highlights approved is listed in editing, alone
C26_EditingReached ==
    /\ apOp = "queried"
    /\ apEdited = {}
    /\ Len(apStatus.editing) = 1
    /\ apStatus.editing[1].video = VideoA

----------------------------------------------------------------------------
(* Change-triggered evaluation: main.py (main) and
   dashboard/orchestration_logic.py (run_evaluation_if_code_changed) *)

\* the two entry points that run the evaluation script when the code changed
EntryPoints == {"main", "orchestration"}

\* hasher.hexdigest() of the code: one text per content of the .py files
Digests == {<<"d1">>, <<"d2">>, <<"d3">>}

\* how the evaluation script ends: exit code 0, a non-zero exit code, or the
\* interpreter cannot be launched (OSError)
ScriptResults == {"exit0", "exit1", "oserror"}

\* read_last_hash(): f.read().strip(), '' without a file
ReadLastHash(file) ==
    IF file.kind = "text" THEN StripRight(StripLeft(file.data)) ELSE <<>>

\* json.load(f).get('hash'), None without a file
ReadJsonHash(file) ==
    IF file.kind = "dict" THEN DictGet(file.data, "hash", NoneValue) ELSE NoneValue

\* last_hash as the entry point reads it
LastHash(entry, file) ==
    IF entry = "main" THEN ReadLastHash(file) ELSE ReadJsonHash(file)

\* write_hash(current_hash) / json.dump({'hash': current_hash}, f)
WriteHash(entry, current_hash) ==
    IF entry = "main" THEN StoreFile("text", current_hash)
    ELSE StoreFile("dict", [hash |-> current_hash])

\* run_script: the return code, 1 for an OSError
ExitCode(result) == IF result = "exit0" THEN 0 ELSE 1

HashFileAfterAnyRun(entry, file, current_hash, result) == WriteHash(entry, current_hash)

\* the hash file after the script ran: written only after exit code 0
HashFileAfter(entry, file, current_hash, result) ==
    IF ExitCode(result) = 0 THEN WriteHash(entry, current_hash) ELSE file

\* run_evaluation_if_code_changed re-raises a failed run, main logs it
Raises(entry, result) == entry = "orchestration" /\ ExitCode(result) # 0

\* the record of one invocation
Invocation(code, before, ran, result, after, raised) ==
    [code |-> code, before |-> before, ran |-> ran, result |-> result,
     after |-> after, raised |-> raised]

NoInvocation == Invocation(<<>>, <<>>, FALSE, "none", <<>>, FALSE)

InitEval ==
    /\ evCode \in Digests
    /\ evHashFile = [e \in EntryPoints |-> StoreFile("absent", <<>>)]
    /\ evLast = [e \in EntryPoints |-> NoInvocation]
    /\ evPrev = [e \in EntryPoints |-> NoInvocation]
    /\ FhIdle
    /\ WfIdle
    /\ RcIdle
    /\ PsIdle
    /\ DtIdle
    /\ BgIdle
    /\ SlIdle
    /\ ApIdle

\* a .py file of the code directory is edited
ChangeCode ==
    /\ \E d \in Digests \ {evCode} : evCode' = d
    /\ UNCHANGED <<evHashFile, evLast, evPrev>>
    /\ UNCHANGED offEval

\* the entry point finds the hash of the code equal to the stored one
SkipEvaluation(entry) ==
    /\ evCode = LastHash(entry, evHashFile[entry])
    /\ evPrev' = [evPrev EXCEPT ![entry] = evLast[entry]]
    /\ evLast' = [evLast EXCEPT ![entry] =
          Invocation(evCode, LastHash(entry, evHashFile[entry]), FALSE, "none",
                     LastHash(entry, evHashFile[entry]), FALSE)]
    /\ UNCHANGED <<evCode, evHashFile>>
    /\ UNCHANGED offEval

\* the entry point finds the hashes different and runs the script
RunEvaluationScript(entry, result) ==
    /\ evCode # LastHash(entry, evHashFile[entry])
    /\ evHashFile' = [evHashFile EXCEPT ![entry] = HashFileAfter(entry, @, evCode, result)]
    /\ evPrev' = [evPrev EXCEPT ![entry] = evLast[entry]]
    /\ evLast' = [evLast EXCEPT ![entry] =
          Invocation(evCode, LastHash(entry, evHashFile[entry]), TRUE, result,
                     LastHash(entry, evHashFile'[entry]), Raises(entry, result))]
    /\ UNCHANGED evCode
    /\ UNCHANGED offEval

SkipAny == \E e \in EntryPoints : SkipEvaluation(e)
RunScriptAny == \E e \in EntryPoints, result \in ScriptResults : RunEvaluationScript(e, result)

NextEval == ChangeCode \/ SkipAny \/ RunScriptAny

SpecEval == InitEval /\ [][NextEval]_vars

----------------------------------------------------------------------------
(* Claims about change-triggered evaluation, checked under SpecEval *)

Invoked(e) == evLast[e] # NoInvocation

====
